---------------------------- MODULE Spec2Model ----------------------------
(***************************************************************************)
(* Verification model of the ccusage-vscode usage aggregation engine       *)
(* (src/src/ccusage-service.ts).                                           *)
(*                                                                         *)
(* Specifications:                                                         *)
(*   Spec       - CcusageService.getUsage: the facade that runs the two    *)
(*                provider pipelines concurrently and merges the outcomes. *)
(*   SpecCodexParse - parseCodexSession: the line-by-line fold over one    *)
(*                Codex session file.                                      *)
(*   SpecClaude - loadClaudeUsage over append-only transcripts: the        *)
(*                trailing five-hour window and the totals.                *)
(*   SpecCodex  - loadCodexUsage over append-only session files: today's   *)
(*                events, the model groups and their cost.                 *)
(*   SpecRoots  - the root resolution of both providers on changing hosts. *)
(*   SpecCollect - collectJsonlFiles over a growing directory tree.        *)
(*   SpecRate   - the Codex rate-limit windows derived from telemetry.     *)
(*   SpecRefresh - the status bar refreshes of the extension.              *)
(***************************************************************************)
EXTENDS Integers, Sequences, FiniteSets, TLC

VARIABLES
    \* ---- getUsage (facade) ----
    pc,         \* position of the getUsage call: idle / awaiting / returned / thrown
    mode,       \* the requested ProviderMode (any string the caller passes)
    summary,    \* the UsageSummary under construction: claude, codex, errors
    pipeline,   \* per provider: the promise of loadClaudeUsage()/loadCodexUsage()
    handled,    \* per provider: whether the .then/.catch callback has run
    fsAccess,   \* providers whose pipeline has touched the filesystem in this call
    thrown,     \* message of the Error getUsage threw (sequence of text pieces)
    \* ---- parseCodexSession ----
    parsePc,                \* idle / reading / done
    lines,                  \* the lines of the file consumed so far (parsed JSON shape)
    previousTotals,         \* last cumulative snapshot seen in this file, or Null
    currentModel,           \* model carried from earlier lines, or Null
    currentModelIsFallback, \* whether currentModel is the fallback id
    legacyFallbackUsed,     \* whether the fallback was applied anywhere in the file
    events,                 \* TokenUsageEvent[] emitted so far
    issues,                 \* diagnostic strings recorded so far
    \* ---- loadClaudeUsage ----
    transcripts,    \* the .jsonl transcripts on disk, most recently modified first
    claudePc,       \* idle / parsing / done
    now,            \* `new Date()` taken at the start of the load (epoch ms)
    claudeEnv,      \* CLAUDE_CONFIG_DIR and the directories that exist
    claudeDirs,     \* the roots resolveClaudeDataDirectories returned
    projectDirs,    \* the existing projects directories of the roots
    parsed,         \* number of transcripts parsed so far
    entries,        \* ClaudeUsageEntry[] collected so far
    claudeResult,   \* the ClaudeUsageData returned, or Null
    \* ---- loadCodexUsage ----
    sessions,           \* the .jsonl session files on disk, most recently modified first
    codexPc,            \* idle / scanning / done / thrown
    codexEnv,           \* CODEX_HOME and the directories that exist
    codexOptions,       \* the UsageQueryOptions of the call
    sessionDirs,        \* the candidates resolveCodexSessionDirectories returned
    scanned,            \* number of candidates visited so far
    codexEvents,        \* TokenUsageEvent[] collected so far
    missingDirectories, \* candidates that do not exist
    codexIssues,        \* the issues array
    codexResult,        \* the CodexUsageData returned, or Null
    \* ---- resolveClaudeDataDirectories / resolveCodexSessionDirectories ----
    hostEnv,        \* CLAUDE_CONFIG_DIR, CODEX_HOME and the directories that exist
    rootsPc,        \* idle / claude / codex: which resolver has just returned
    claudeRoots,    \* what resolveClaudeDataDirectories returned
    codexRoots,     \* what resolveCodexSessionDirectories returned
    \* ---- collectJsonlFiles ----
    disk,           \* the files on disk, in the order readdir lists them
    unreadable,     \* the directories readdir fails on
    collectPc,      \* idle / done
    collectRoots,   \* the roots of the call
    collectLimit,   \* the limit of the call, or Null
    collected,      \* the paths returned
    \* ---- Codex rate-limit windows ----
    rateReading,    \* the rate_limits reading of the latest token-count event, or Null
    rateNow,        \* the clock
    ratePc,         \* idle / done
    rateLimits,     \* the windows the last query derived, or Null
    \* ---- status bar refresh ----
    uiPc,           \* inactive / active
    uiConfig,       \* the ccusage configuration
    refreshes,      \* the updateUsageDisplay calls started, in order
    statusBarItem   \* what the status bar item shows and which refresh wrote it

facadeVars == <<pc, mode, summary, pipeline, handled, fsAccess, thrown>>

parseVars == <<parsePc, lines, previousTotals, currentModel, currentModelIsFallback,
               legacyFallbackUsed, events, issues>>

claudeVars == <<transcripts, claudePc, now, claudeEnv, claudeDirs, projectDirs, parsed,
                entries, claudeResult>>

codexVars == <<sessions, codexPc, codexEnv, codexOptions, sessionDirs, scanned,
               codexEvents, missingDirectories, codexIssues, codexResult>>

rootsVars == <<hostEnv, rootsPc, claudeRoots, codexRoots>>

collectVars == <<disk, unreadable, collectPc, collectRoots, collectLimit, collected>>

rateVars == <<rateReading, rateNow, ratePc, rateLimits>>

uiVars == <<uiPc, uiConfig, refreshes, statusBarItem>>

vars == <<facadeVars, parseVars, claudeVars, codexVars, rootsVars, collectVars, rateVars,
          uiVars>>

\* An absent value (undefined/null). A present value v is held as <<v>>.
Null == <<>>

Some(v) == <<v>>

unwrap(o) == o[1]

Providers == {"claude", "codex"}

\* The four ProviderMode values plus a value outside the type (a misconfigured caller).
Modes == {"claude", "codex", "both", "auto", "off"}

\* Messages carried by the errors a pipeline may throw.
ErrorMessages == {<<"EACCES">>, <<"Invalid time zone">>}

\* What a pipeline may reject with: an Error, a bare string, or any other value.
Rejections ==
    [kind : {"Error"}, message : ErrorMessages]
        \cup [kind : {"string"}, message : {<<"boom">>}]
        \cup [kind : {"other"}, message : {<<>>}]

\* The provider results a pipeline may resolve with (the facade stores them untouched).
ProviderData ==
    [provider : Providers, available : BOOLEAN, hasData : BOOLEAN]

(***************************************************************************)
(* Helpers of the facade                                                   *)
(***************************************************************************)

\* asError: an Error is kept, a string becomes its message, anything else 'Unknown error'.
asError(value) ==
    IF value.kind = "Error" THEN [message |-> value.message]
    ELSE IF value.kind = "string" THEN [message |-> value.message]
    ELSE [message |-> <<"Unknown error">>]

\* Mutant of JoinDetail: only the first collected error is rendered.
JoinDetail_FirstOnly(errors) ==
    IF Len(errors) = 0 THEN <<>>
    ELSE <<errors[1].provider, ": ">> \o errors[1].error.message

\* errors.map(err => `${err.provider}: ${err.error.message}`).join('; ')
RECURSIVE JoinDetail(_)
JoinDetail(errors) ==
    IF Len(errors) = 0 THEN <<>>
    ELSE LET first == <<errors[1].provider, ": ">> \o errors[1].error.message
         IN  IF Len(errors) = 1 THEN first
             ELSE first \o <<"; ">> \o JoinDetail(Tail(errors))

\* Mutant of composeError: the collected errors are left out of the message.
composeError_NoDetail(errors, fallbackMessage) == <<fallbackMessage>>

composeError(errors, fallbackMessage) ==
    IF Len(errors) = 0 THEN <<fallbackMessage>>
    ELSE <<fallbackMessage, " (">> \o JoinDetail(errors) \o <<")">>

\* Mutant of shouldLoadClaude: everything but 'codex' selects Claude.
shouldLoadClaude_NotCodex(m) == m # "codex"

shouldLoadClaude(m) == m = "claude" \/ m = "both" \/ m = "auto"

shouldLoadCodex(m) == m = "codex" \/ m = "both" \/ m = "auto"

shouldLoad(m, p) == IF p = "claude" THEN shouldLoadClaude(m) ELSE shouldLoadCodex(m)

\* Mutant of AfterAwait: any collected error fails the call.
AfterAwait_ThrowOnAnyError(m, s) ==
    IF ~shouldLoadClaude(m) /\ ~shouldLoadCodex(m)
        THEN [kind |-> "throw",
              message |-> <<"No provider selected for usage retrieval.">>]
    ELSE IF Len(s.errors) > 0
        THEN [kind |-> "throw",
              message |-> composeError(s.errors, "Failed to load usage data.")]
    ELSE [kind |-> "return", message |-> <<>>]

\* Mutant of AfterAwait: a call in which every selected provider failed returns.
AfterAwait_ReturnsErrorsOnly(m, s) ==
    IF m = "claude" /\ s.claude = Null
        THEN [kind |-> "throw",
              message |-> composeError(s.errors, "Claude usage data is unavailable.")]
    ELSE IF m = "codex" /\ s.codex = Null
        THEN [kind |-> "throw",
              message |-> composeError(s.errors, "Codex usage data is unavailable.")]
    ELSE IF ~shouldLoadClaude(m) /\ ~shouldLoadCodex(m)
        THEN [kind |-> "throw",
              message |-> <<"No provider selected for usage retrieval.">>]
    ELSE [kind |-> "return", message |-> <<>>]

\* The statements of getUsage after `await Promise.all(loaders)`.
AfterAwait(m, s) ==
    IF m = "claude" /\ s.claude = Null
        THEN [kind |-> "throw",
              message |-> composeError(s.errors, "Claude usage data is unavailable.")]
    ELSE IF m = "codex" /\ s.codex = Null
        THEN [kind |-> "throw",
              message |-> composeError(s.errors, "Codex usage data is unavailable.")]
    ELSE IF ~shouldLoadClaude(m) /\ ~shouldLoadCodex(m)
        THEN [kind |-> "throw",
              message |-> <<"No provider selected for usage retrieval.">>]
    ELSE IF s.claude = Null /\ s.codex = Null /\ Len(s.errors) > 0
        THEN [kind |-> "throw",
              message |-> composeError(s.errors, "Failed to load usage data.")]
    ELSE [kind |-> "return", message |-> <<>>]

\* .then(data => { summary.<provider> = data })
OnFulfilled(s, p, data) ==
    IF p = "claude" THEN [s EXCEPT !.claude = Some(data)]
    ELSE [s EXCEPT !.codex = Some(data)]

\* .catch(error => { summary.errors.push({ provider, error: asError(error) }) })
OnRejected(s, p, error) ==
    [s EXCEPT !.errors = Append(@, [provider |-> p, error |-> asError(error)])]

EmptySummary == [claude |-> Null, codex |-> Null, errors |-> <<>>]

NoPromise == [status |-> "none", value |-> Null]

(***************************************************************************)
(* getUsage as a state machine                                             *)
(***************************************************************************)

\* getUsage(mode): lines 120-144 run synchronously; each selected loader is started.
Call ==
    /\ pc \in {"idle", "returned", "thrown"}
    /\ \E m \in Modes :
        /\ mode' = m
        /\ pipeline' = [p \in Providers |->
                           IF shouldLoad(m, p)
                           THEN [status |-> "pending", value |-> Null]
                           ELSE NoPromise]
    /\ summary' = EmptySummary
    /\ handled' = [p \in Providers |-> FALSE]
    /\ fsAccess' = {}
    /\ thrown' = <<>>
    /\ pc' = "awaiting"

\* A started pipeline reaches its first filesystem call (pathExists on a log root).
PipelineIO(p) ==
    /\ pc = "awaiting"
    /\ pipeline[p].status = "pending"
    /\ p \notin fsAccess
    /\ fsAccess' = fsAccess \cup {p}
    /\ UNCHANGED <<pc, mode, summary, pipeline, handled, thrown>>

\* loadClaudeUsage()/loadCodexUsage() resolves with the provider's result.
PipelineResolve(p) ==
    /\ pc = "awaiting"
    /\ pipeline[p].status = "pending"
    /\ p \in fsAccess
    /\ \E d \in {x \in ProviderData : x.provider = p} :
        pipeline' = [pipeline EXCEPT ![p] = [status |-> "fulfilled", value |-> Some(d)]]
    /\ UNCHANGED <<pc, mode, summary, handled, fsAccess, thrown>>

\* loadClaudeUsage()/loadCodexUsage() throws.
PipelineReject(p) ==
    /\ pc = "awaiting"
    /\ pipeline[p].status = "pending"
    /\ p \in fsAccess
    /\ \E r \in Rejections :
        pipeline' = [pipeline EXCEPT ![p] = [status |-> "rejected", value |-> Some(r)]]
    /\ UNCHANGED <<pc, mode, summary, handled, fsAccess, thrown>>

\* The .then/.catch callback chained on the pipeline's promise runs.
LoaderCallback(p) ==
    /\ pc = "awaiting"
    /\ pipeline[p].status \in {"fulfilled", "rejected"}
    /\ ~handled[p]
    /\ summary' = IF pipeline[p].status = "fulfilled"
                  THEN OnFulfilled(summary, p, unwrap(pipeline[p].value))
                  ELSE OnRejected(summary, p, unwrap(pipeline[p].value))
    /\ handled' = [handled EXCEPT ![p] = TRUE]
    /\ UNCHANGED <<pc, mode, pipeline, fsAccess, thrown>>

\* Promise.all(loaders) has resolved: lines 148-164 decide between throw and return.
Finish ==
    /\ pc = "awaiting"
    /\ \A p \in Providers : pipeline[p].status # "none" => handled[p]
    /\ LET out == AfterAwait(mode, summary)
       IN  /\ pc' = IF out.kind = "throw" THEN "thrown" ELSE "returned"
           /\ thrown' = out.message
    /\ UNCHANGED <<mode, summary, pipeline, handled, fsAccess>>

NextFacade ==
    \/ Call
    \/ \E p \in Providers : PipelineIO(p)
    \/ \E p \in Providers : PipelineResolve(p)
    \/ \E p \in Providers : PipelineReject(p)
    \/ \E p \in Providers : LoaderCallback(p)
    \/ Finish

(***************************************************************************)
(* parseCodexSession: data                                                 *)
(***************************************************************************)

\* Number of lines of a session file the model reads.
MaxLines == 3

\* Largest token counter value written in a usage object.
MaxTok == 2

\* A JSON string is a sequence of pieces; the piece " " is white space.
Blank == " "

\* The places extractCodexModel looks at, in its order. Null: absent or not a string.
NoModelSource ==
    [model |-> Null, model_name |-> Null, info_model |-> Null,
     info_model_name |-> Null, info_metadata_model |-> Null, metadata_model |-> Null]

ModelSources ==
    { NoModelSource,
      [NoModelSource EXCEPT !.model = Some(<<"gpt-5-mini">>)],
      [NoModelSource EXCEPT !.model = Some(<<Blank>>),
                            !.info_metadata_model = Some(<<"made-up-model-9">>)],
      [NoModelSource EXCEPT !.model_name = Some(<<Blank, "gpt-5-codex", Blank>>),
                            !.metadata_model = Some(<<"gpt-4.1">>)] }

\* A usage object as written in the log: counters may be absent (Null) or any number.
RawUsage(i, c, cr, o, r, t) ==
    [input_tokens |-> i, cached_input_tokens |-> c, cache_read_input_tokens |-> cr,
     output_tokens |-> o, reasoning_output_tokens |-> r, total_tokens |-> t]

\* Cumulative snapshots: the input counter over the whole range, the cached counter
\* at zero or at the top of the range (normalisation caps it at input); no total_tokens.
CumulativeUsages ==
    { RawUsage(Some(i), Some(c), Null, Some(1), Some(0), Null) :
        i \in 0..MaxTok, c \in {0, MaxTok} }

\* Other shapes: an empty object, a negative counter, the cache_read alias, an explicit total.
OddUsages ==
    { RawUsage(Null, Null, Null, Null, Null, Null),
      RawUsage(Some(-1), Some(1), Null, Some(0), Some(1), Null),
      RawUsage(Some(MaxTok), Null, Some(1), Some(1), Some(1), Some(2 * MaxTok + 2)) }

\* The timestamp fields of a record, in the order parseTimestamp reads them.
\* Null: absent or not a string; Some(-1): a string Date cannot parse; Some(t): instant t.
NoTimestamp == [timestamp |-> Null, time |-> Null, created_at |-> Null]

Stamped == [NoTimestamp EXCEPT !.timestamp = Some(1)]

TimestampForms ==
    { NoTimestamp, Stamped,
      [NoTimestamp EXCEPT !.timestamp = Some(-1), !.created_at = Some(2)],
      [NoTimestamp EXCEPT !.time = Some(-1)] }

\* One line of the file, after JSON.parse (valid = FALSE: JSON.parse throws).
\* json is the kind of value a valid line parses to.
Line(valid, type, payloadType, ts, src, last, total) ==
    [valid |-> valid, json |-> "object", type |-> type, payloadType |-> payloadType,
     ts |-> ts, src |-> src, last |-> last, total |-> total]

InvalidLine == Line(FALSE, "", "", NoTimestamp, NoModelSource, Null, Null)

\* The line `null`: JSON.parse returns null, and reading `parsed.type` throws.
NullLine ==
    [Line(TRUE, "", "", NoTimestamp, NoModelSource, Null, Null) EXCEPT !.json = "null"]

TokenCount(ts, src, last, total) == Line(TRUE, "event_msg", "token_count", ts, src, last, total)

DefaultDelta == RawUsage(Some(1), Some(1), Null, Some(1), Some(0), Some(2))

DefaultSnapshot == RawUsage(Some(MaxTok), Some(0), Null, Some(1), Some(0), Null)

EmptyUsage == RawUsage(Some(0), Some(0), Null, Some(0), Some(0), Some(0))

MiniSource == [NoModelSource EXCEPT !.model = Some(<<"gpt-5-mini">>)]

\* Files are drawn from two families of lines. The first varies the usage
\* telemetry (cumulative snapshots, deltas, odd counters, timestamp forms) ...
UsageLines ==
    { TokenCount(Stamped, NoModelSource, Null, Some(u)) : u \in CumulativeUsages \cup OddUsages }
    \cup { TokenCount(t, NoModelSource, Null, Some(DefaultSnapshot)) : t \in TimestampForms }
    \cup { TokenCount(Stamped, NoModelSource, Some(DefaultDelta), Null),
           TokenCount(Stamped, NoModelSource, Some(DefaultDelta), Some(DefaultSnapshot)),
           TokenCount(Stamped, NoModelSource, Null, Null),
           NullLine }

\* ... the second varies the line kinds and the places a model can come from.
ModelLines ==
    { InvalidLine, NullLine,
      Line(TRUE, "session_meta", "", Stamped, NoModelSource, Null, Null),
      Line(TRUE, "event_msg", "agent_message", Stamped, MiniSource, Null, Null) }
    \cup { Line(TRUE, "turn_context", "", Stamped, s, Null, Null) : s \in ModelSources }
    \cup { TokenCount(Stamped, s, Some(DefaultDelta), Null) : s \in ModelSources }
    \cup { TokenCount(Stamped, NoModelSource, Null, Some(DefaultSnapshot)),
           TokenCount(Stamped, MiniSource, Some(EmptyUsage), Null) }

LineFamilies == {UsageLines, ModelLines}

LineAlphabet == UNION LineFamilies

Range(seq) == {seq[i] : i \in 1..Len(seq)}

\* The session files the model reads: lines of one family.
IsSessionFile(ls) == \E family \in LineFamilies : Range(ls) \subseteq family

(***************************************************************************)
(* parseCodexSession: helpers                                              *)
(***************************************************************************)

Max(a, b) == IF a >= b THEN a ELSE b

Min(a, b) == IF a <= b THEN a ELSE b

\* asPositiveNumber: a finite number > 0 is kept; anything else is 0.
asPositiveNumber(value) ==
    IF value # Null /\ unwrap(value) > 0 THEN unwrap(value) ELSE 0

\* a ?? b
Coalesce(a, b) == IF a # Null THEN a ELSE b

normalizeCodexUsage(value) ==
    IF value = Null THEN Null
    ELSE LET record == unwrap(value)
             inputTokens == asPositiveNumber(record.input_tokens)
             cachedTokens == asPositiveNumber(
                 Coalesce(record.cached_input_tokens, record.cache_read_input_tokens))
             outputTokens == asPositiveNumber(record.output_tokens)
             reasoningTokens == asPositiveNumber(record.reasoning_output_tokens)
             totalTokens == asPositiveNumber(record.total_tokens)
             normalisedTotal == IF totalTokens > 0 THEN totalTokens
                                ELSE inputTokens + outputTokens
         IN  Some([inputTokens |-> inputTokens,
                   cachedInputTokens |-> Min(cachedTokens, inputTokens),
                   outputTokens |-> outputTokens,
                   reasoningOutputTokens |-> reasoningTokens,
                   totalTokens |-> normalisedTotal])

\* Mutant of subtractCodexUsage: the previous snapshot is ignored.
subtractCodexUsage_IgnorePrevious(current, previous) == current

subtractCodexUsage(current, previous) ==
    IF previous = Null THEN current
    ELSE LET prev == unwrap(previous)
         IN  [inputTokens |-> Max(0, current.inputTokens - prev.inputTokens),
              cachedInputTokens |->
                  Max(0, current.cachedInputTokens - prev.cachedInputTokens),
              outputTokens |-> Max(0, current.outputTokens - prev.outputTokens),
              reasoningOutputTokens |->
                  Max(0, current.reasoningOutputTokens - prev.reasoningOutputTokens),
              totalTokens |-> Max(0, current.totalTokens - prev.totalTokens)]

isUsageEmpty(usage) ==
    /\ usage.inputTokens = 0
    /\ usage.cachedInputTokens = 0
    /\ usage.outputTokens = 0
    /\ usage.reasoningOutputTokens = 0
    /\ usage.totalTokens = 0

\* String.prototype.trim on a sequence of pieces.
RECURSIVE TrimLeft(_)
TrimLeft(str) ==
    IF Len(str) > 0 /\ Head(str) = Blank THEN TrimLeft(Tail(str)) ELSE str

RECURSIVE TrimRight(_)
TrimRight(str) ==
    IF Len(str) > 0 /\ str[Len(str)] = Blank
    THEN TrimRight(SubSeq(str, 1, Len(str) - 1))
    ELSE str

Trim(str) == TrimRight(TrimLeft(str))

\* typeof candidate === 'string' && candidate.trim().length > 0
IsModelString(candidate) == candidate # Null /\ Len(Trim(unwrap(candidate))) > 0

\* The first usable candidate of the list, trimmed; Null if none.
RECURSIVE FirstModel(_)
FirstModel(candidates) ==
    IF Len(candidates) = 0 THEN Null
    ELSE IF IsModelString(Head(candidates)) THEN Some(Trim(unwrap(Head(candidates))))
    ELSE FirstModel(Tail(candidates))

extractCodexModel(source) ==
    FirstModel(<<source.model, source.model_name, source.info_model,
                 source.info_model_name, source.info_metadata_model,
                 source.metadata_model>>)

\* parseTimestamp: the first of timestamp, time, created_at that is a parseable date.
RECURSIVE FirstDate(_)
FirstDate(candidates) ==
    IF Len(candidates) = 0 THEN Null
    ELSE IF Head(candidates) # Null /\ unwrap(Head(candidates)) >= 0 THEN Head(candidates)
    ELSE FirstDate(Tail(candidates))

parseTimestamp(record) == FirstDate(<<record.timestamp, record.time, record.created_at>>)

FallbackModel == <<"gpt-5">>

LegacyIssue == "Legacy session lacked model metadata; applied fallback model gpt-5."

(***************************************************************************)
(* parseCodexSession: the loop body as a fold step over the parser state   *)
(***************************************************************************)

\* Mutant of TurnContextStep: the model is taken over, the fallback flag stays.
TurnContextStep_KeepsFlag(st, line) ==
    LET payloadModel == extractCodexModel(line.src)
    IN  IF payloadModel # Null THEN [st EXCEPT !.currentModel = payloadModel] ELSE st

\* lines 528-537
TurnContextStep(st, line) ==
    LET payloadModel == extractCodexModel(line.src)
    IN  IF payloadModel # Null
        THEN [st EXCEPT !.currentModel = payloadModel, !.currentModelIsFallback = FALSE]
        ELSE st

\* Mutant of EmitStep: the fallback issue is pushed with every fallback event.
EmitStep_IssuePerEvent(st, timestamp, usage, extractedModel) ==
    LET model == IF extractedModel # Null THEN unwrap(extractedModel)
                 ELSE IF st.currentModel # Null THEN unwrap(st.currentModel)
                 ELSE FallbackModel
        isFallback == extractedModel = Null
                        /\ (st.currentModel = Null \/ st.currentModelIsFallback)
    IN  [st EXCEPT
            !.currentModel = Some(model),
            !.currentModelIsFallback = isFallback,
            !.legacyFallbackUsed = @ \/ (extractedModel = Null /\ st.currentModel = Null),
            !.issues = IF isFallback THEN Append(@, LegacyIssue) ELSE @,
            !.events = Append(@, [timestamp |-> unwrap(timestamp), model |-> model,
                                  usage |-> usage, isFallbackModel |-> isFallback])]

\* Mutant of EmitStep: the carried model wins over the event's own model.
EmitStep_CarriedFirst(st, timestamp, usage, extractedModel) ==
    LET model == IF st.currentModel # Null THEN unwrap(st.currentModel)
                 ELSE IF extractedModel # Null THEN unwrap(extractedModel)
                 ELSE FallbackModel
        isFallback == IF st.currentModel # Null THEN st.currentModelIsFallback
                      ELSE extractedModel = Null
    IN  [st EXCEPT
            !.currentModel = Some(model),
            !.currentModelIsFallback = isFallback,
            !.legacyFallbackUsed = @ \/ (extractedModel = Null /\ st.currentModel = Null),
            !.events = Append(@, [timestamp |-> unwrap(timestamp), model |-> model,
                                  usage |-> usage, isFallbackModel |-> isFallback])]

\* lines 571-597: model resolution and emission of one event
EmitStep(st, timestamp, usage, extractedModel) ==
    LET \* if (extractedModel) { currentModel = extractedModel; currentModelIsFallback = false }
        st1 == IF extractedModel # Null
               THEN [st EXCEPT !.currentModel = extractedModel,
                               !.currentModelIsFallback = FALSE]
               ELSE st
        \* let model = extractedModel ?? currentModel
        model == Coalesce(extractedModel, st1.currentModel)
        \* if (!model) { ... } else if (!extractedModel && currentModelIsFallback) { ... }
        st2 == IF model = Null
               THEN [st1 EXCEPT !.legacyFallbackUsed = TRUE,
                                !.currentModel = Some(FallbackModel),
                                !.currentModelIsFallback = TRUE]
               ELSE st1
        finalModel == IF model = Null THEN FallbackModel ELSE unwrap(model)
        isFallback == IF model = Null THEN TRUE
                      ELSE extractedModel = Null /\ st1.currentModelIsFallback
    IN  [st2 EXCEPT
            !.events = Append(@, [timestamp |-> unwrap(timestamp), model |-> finalModel,
                                  usage |-> usage, isFallbackModel |-> isFallback])]

\* Mutant of TokenCountStep: the snapshot is kept only when the delta was computed
\* from it.
TokenCountStep_SnapshotOnSubtract(st, line) ==
    LET timestamp == parseTimestamp(line.ts)
        lastUsage == normalizeCodexUsage(line.last)
        totalUsage == normalizeCodexUsage(line.total)
        usage == IF lastUsage # Null THEN lastUsage
                 ELSE IF totalUsage # Null
                      THEN Some(subtractCodexUsage(unwrap(totalUsage), st.previousTotals))
                      ELSE Null
        st1 == IF lastUsage = Null /\ totalUsage # Null
               THEN [st EXCEPT !.previousTotals = totalUsage] ELSE st
    IN  IF timestamp = Null THEN st
        ELSE IF usage = Null \/ isUsageEmpty(unwrap(usage)) THEN st1
        ELSE EmitStep(st1, timestamp, unwrap(usage), extractCodexModel(line.src))

\* lines 549-597
TokenCountStep(st, line) ==
    LET timestamp == parseTimestamp(line.ts)
        lastUsage == normalizeCodexUsage(line.last)
        totalUsage == normalizeCodexUsage(line.total)
        usage == IF lastUsage # Null THEN lastUsage
                 ELSE IF totalUsage # Null
                      THEN Some(subtractCodexUsage(unwrap(totalUsage), st.previousTotals))
                      ELSE Null
        st1 == IF totalUsage # Null THEN [st EXCEPT !.previousTotals = totalUsage] ELSE st
    IN  IF timestamp = Null THEN st
        ELSE IF usage = Null \/ isUsageEmpty(unwrap(usage)) THEN st1
        ELSE EmitStep(st1, timestamp, unwrap(usage), extractCodexModel(line.src))

\* Mutant of ParseLine: a line that fails JSON.parse also forgets the carried model
\* and the cumulative snapshot.
ParseLine_InvalidResets(st, line) ==
    IF ~line.valid
    THEN [st EXCEPT !.issues = Append(@, "Invalid JSON line"),
                    !.currentModel = Null, !.currentModelIsFallback = FALSE,
                    !.previousTotals = Null]
    ELSE IF line.json = "null"
    THEN [st EXCEPT !.issues = Append(@, "Failed to read session"), !.thrown = TRUE]
    ELSE IF line.type = "turn_context" THEN TurnContextStep(st, line)
    ELSE IF line.type # "event_msg" THEN st
    ELSE IF line.payloadType # "token_count" THEN st
    ELSE TokenCountStep(st, line)

\* lines 518-598: one iteration of the loop
ParseLine(st, line) ==
    IF ~line.valid THEN [st EXCEPT !.issues = Append(@, "Invalid JSON line")]
    ELSE IF line.json = "null"
    THEN [st EXCEPT !.issues = Append(@, "Failed to read session"), !.thrown = TRUE]
    ELSE IF line.type = "turn_context" THEN TurnContextStep(st, line)
    ELSE IF line.type # "event_msg" THEN st
    ELSE IF line.payloadType # "token_count" THEN st
    ELSE TokenCountStep(st, line)

ParserState ==
    [previousTotals |-> previousTotals, currentModel |-> currentModel,
     currentModelIsFallback |-> currentModelIsFallback,
     legacyFallbackUsed |-> legacyFallbackUsed, events |-> events, issues |-> issues,
     thrown |-> FALSE]

SetParserState(st) ==
    /\ previousTotals' = st.previousTotals
    /\ currentModel' = st.currentModel
    /\ currentModelIsFallback' = st.currentModelIsFallback
    /\ legacyFallbackUsed' = st.legacyFallbackUsed
    /\ events' = st.events
    /\ issues' = st.issues

FreshParserState ==
    [previousTotals |-> Null, currentModel |-> Null, currentModelIsFallback |-> FALSE,
     legacyFallbackUsed |-> FALSE, events |-> <<>>, issues |-> <<>>, thrown |-> FALSE]

\* parseCodexSession(filePath): readFile succeeds, the loop starts with fresh state.
OpenSession ==
    /\ parsePc \in {"idle", "done"}
    /\ parsePc' = "reading"
    /\ lines' = <<>>
    /\ SetParserState(FreshParserState)

\* readFile throws: one issue, no events (lines 604-606).
ReadFails ==
    /\ parsePc \in {"idle", "done"}
    /\ parsePc' = "done"
    /\ lines' = <<>>
    /\ SetParserState([FreshParserState EXCEPT !.issues = <<"Failed to read session">>])

\* What a file can hold after a line the loop does not get past.
UnreadLines(ls) ==
    {<<>>} \cup (IF Len(ls) < MaxLines THEN {<<l>> : l \in LineAlphabet} ELSE {})

\* One iteration of `for (const rawLine of lines)`. An exception that leaves the
\* loop is caught at lines 604-606: the rest of the file is not read, and the
\* function returns what it has.
ReadLine ==
    /\ parsePc = "reading"
    /\ Len(lines) < MaxLines
    /\ \E line \in LineAlphabet :
        LET st == ParseLine(ParserState, line)
        IN  /\ SetParserState(st)
            /\ IF st.thrown
               THEN /\ parsePc' = "done"
                    /\ \E rest \in UnreadLines(Append(lines, line)) :
                        /\ IsSessionFile(Append(lines, line) \o rest)
                        /\ lines' = Append(lines, line) \o rest
               ELSE /\ parsePc' = "reading"
                    /\ IsSessionFile(Append(lines, line))
                    /\ lines' = Append(lines, line)

\* End of the file: lines 600-602, then `return { events, issues }`.
EndOfFile ==
    /\ parsePc = "reading"
    /\ parsePc' = "done"
    /\ issues' = IF legacyFallbackUsed THEN Append(issues, LegacyIssue) ELSE issues
    /\ UNCHANGED <<lines, previousTotals, currentModel, currentModelIsFallback,
                   legacyFallbackUsed, events>>

NextParse ==
    \/ OpenSession
    \/ ReadFails
    \/ ReadLine
    \/ EndOfFile

\* The state before any call: a constructed CcusageService holds no state.
Init ==
    \* getUsage
    /\ pc = "idle"
    /\ mode = "auto"
    /\ summary = EmptySummary
    /\ pipeline = [p \in Providers |-> NoPromise]
    /\ handled = [p \in Providers |-> FALSE]
    /\ fsAccess = {}
    /\ thrown = <<>>
    \* parseCodexSession
    /\ parsePc = "idle"
    /\ lines = <<>>
    /\ previousTotals = Null
    /\ currentModel = Null
    /\ currentModelIsFallback = FALSE
    /\ legacyFallbackUsed = FALSE
    /\ events = <<>>
    /\ issues = <<>>
    \* loadClaudeUsage
    /\ transcripts = <<>>
    /\ claudePc = "idle"
    /\ now = 0
    /\ claudeEnv = [CLAUDE_CONFIG_DIR |-> Null, existing |-> {}]
    /\ claudeDirs = <<>>
    /\ projectDirs = <<>>
    /\ parsed = 0
    /\ entries = <<>>
    /\ claudeResult = Null
    \* loadCodexUsage
    /\ sessions = <<>>
    /\ codexPc = "idle"
    /\ codexEnv = [CODEX_HOME |-> Null, existing |-> {}]
    /\ codexOptions = [timezone |-> Null]
    /\ sessionDirs = <<>>
    /\ scanned = 0
    /\ codexEvents = <<>>
    /\ missingDirectories = <<>>
    /\ codexIssues = <<>>
    /\ codexResult = Null
    \* root resolution
    /\ hostEnv = [CLAUDE_CONFIG_DIR |-> Null, CODEX_HOME |-> Null, existing |-> {}]
    /\ rootsPc = "idle"
    /\ claudeRoots = <<>>
    /\ codexRoots = <<>>
    \* collectJsonlFiles
    /\ disk = <<>>
    /\ unreadable = {}
    /\ collectPc = "idle"
    /\ collectRoots = <<>>
    /\ collectLimit = Null
    /\ collected = <<>>
    \* rate-limit windows
    /\ rateReading = Null
    /\ rateNow = 1000 * 1000 * 1000
    /\ ratePc = "idle"
    /\ rateLimits = Null
    \* status bar refresh
    /\ uiPc = "inactive"
    /\ uiConfig = [providerMode |-> "auto"]
    /\ refreshes = <<>>
    /\ statusBarItem = [refresh |-> 0, providerMode |-> "", shows |-> "nothing"]

(***************************************************************************)
(* loadClaudeUsage: data                                                   *)
(***************************************************************************)

CLAUDE_SESSION_DURATION_MS == 5 * 60 * 60 * 1000

\* Number of lines present in all transcripts together.
MaxClaudeLines == 3

\* A Claude usage object as written in the log.
ClaudeRaw(i, o, cc, cr, cost) ==
    [input_tokens |-> i, output_tokens |-> o, cache_creation_input_tokens |-> cc,
     cache_read_input_tokens |-> cr, total_cost_usd |-> cost, cost_usd |-> Null,
     usd_cost |-> Null]

\* One transcript line after JSON.parse: the timestamp fields, message.usage and usage.
ClaudeLine(valid, ts, messageUsage, usage) ==
    [valid |-> valid, ts |-> ts, messageUsage |-> messageUsage, usage |-> usage]

At(t) == [NoTimestamp EXCEPT !.timestamp = Some(t)]

\* The instant `now` is read at: the window starts at instant 2.
NowValues == {CLAUDE_SESSION_DURATION_MS + 2}

\* An instant an hour and a half after the window start.
MidWindow == 2 + 90 * 60 * 1000 + 30 * 1000

\* Costs are counted in cents.
ClaudeLineAlphabet ==
    { ClaudeLine(FALSE, NoTimestamp, Null, Null),
      ClaudeLine(TRUE, At(1), Some(ClaudeRaw(Some(1), Some(1), Null, Null, Null)), Null),
      ClaudeLine(TRUE, At(2), Some(ClaudeRaw(Some(2), Some(0), Some(1), Some(0), Some(42))), Null),
      ClaudeLine(TRUE, At(MidWindow), Null,
                 Some(ClaudeRaw(Some(4), Null, Null, Some(4), Null))),
      ClaudeLine(TRUE, [NoTimestamp EXCEPT !.timestamp = Some(-1), !.time = Some(4)],
                 Some(ClaudeRaw(Some(0), Some(-1), Null, Null, Some(7))),
                 Some(ClaudeRaw(Some(9), Some(9), Null, Null, Null))),
      ClaudeLine(TRUE, NoTimestamp, Some(ClaudeRaw(Some(1), Some(1), Null, Null, Null)), Null),
      ClaudeLine(TRUE, At(3), Null, Null),
      ClaudeLine(TRUE, At(3), Some(ClaudeRaw(Some(0), Null, Null, Null, Some(0))), Null) }

(***************************************************************************)
(* loadClaudeUsage: helpers                                                *)
(***************************************************************************)

\* extractClaudeUsage: Null when the record is no usage entry.
extractClaudeUsage(record) ==
    LET timestamp == parseTimestamp(record.ts)
        usageCandidate == Coalesce(record.messageUsage, record.usage)
    IN  IF timestamp = Null THEN Null
        ELSE IF usageCandidate = Null THEN Null
        ELSE LET u == unwrap(usageCandidate)
                 inputTokens == asPositiveNumber(u.input_tokens)
                 outputTokens == asPositiveNumber(u.output_tokens)
                 cacheCreationTokens == asPositiveNumber(u.cache_creation_input_tokens)
                 cacheReadTokens == asPositiveNumber(u.cache_read_input_tokens)
                 totalCostUSD == asPositiveNumber(
                     Coalesce(Coalesce(u.total_cost_usd, u.cost_usd), u.usd_cost))
             IN  IF /\ inputTokens = 0 /\ outputTokens = 0 /\ cacheCreationTokens = 0
                    /\ cacheReadTokens = 0 /\ totalCostUSD = 0
                 THEN Null
                 ELSE Some([timestamp |-> unwrap(timestamp),
                            inputTokens |-> inputTokens,
                            outputTokens |-> outputTokens,
                            cacheCreationInputTokens |-> cacheCreationTokens,
                            cacheReadInputTokens |-> cacheReadTokens,
                            totalCostUSD |-> IF totalCostUSD # 0 THEN Some(totalCostUSD)
                                             ELSE Null])

\* Mutant of BeforeWindow: an entry at the window start is dropped too.
BeforeWindow_Inclusive(timestamp, windowStart) == timestamp <= windowStart

\* usage.timestamp < windowStart (line 454)
BeforeWindow(timestamp, windowStart) == timestamp < windowStart

\* The loop of parseClaudeTranscript over the lines of one readable file.
RECURSIVE ParseClaudeLines(_, _)
ParseClaudeLines(ls, windowStart) ==
    IF Len(ls) = 0 THEN <<>>
    ELSE LET rest == ParseClaudeLines(Tail(ls), windowStart)
             line == Head(ls)
             usage == IF line.valid THEN extractClaudeUsage(line) ELSE Null
         IN  IF usage = Null THEN rest
             ELSE IF BeforeWindow(unwrap(usage).timestamp, windowStart) THEN rest
             ELSE <<unwrap(usage)>> \o rest

\* parseClaudeTranscript: an unreadable file yields no entries.
parseClaudeTranscript(file, windowStart) ==
    IF ~file.readable THEN <<>> ELSE ParseClaudeLines(file.lines, windowStart)

\* Array.prototype.sort by timestamp (stable): insertion into a sorted prefix.
RECURSIVE InsertByTimestamp(_, _)
InsertByTimestamp(sorted, e) ==
    IF Len(sorted) = 0 THEN <<e>>
    ELSE IF Head(sorted).timestamp <= e.timestamp
         THEN <<Head(sorted)>> \o InsertByTimestamp(Tail(sorted), e)
         ELSE <<e>> \o sorted

RECURSIVE SortByTimestamp(_)
SortByTimestamp(es) ==
    IF Len(es) = 0 THEN <<>>
    ELSE InsertByTimestamp(SortByTimestamp(SubSeq(es, 1, Len(es) - 1)), es[Len(es)])

\* Mutant of SumClaudeTokens: the cache tokens are left out of the total.
RECURSIVE SumClaudeTokens_NoCache(_)
SumClaudeTokens_NoCache(es) ==
    IF Len(es) = 0 THEN 0
    ELSE Head(es).inputTokens + Head(es).outputTokens + SumClaudeTokens_NoCache(Tail(es))

RECURSIVE SumClaudeTokens(_)
SumClaudeTokens(es) ==
    IF Len(es) = 0 THEN 0
    ELSE Head(es).inputTokens + Head(es).outputTokens
            + Head(es).cacheCreationInputTokens + Head(es).cacheReadInputTokens
            + SumClaudeTokens(Tail(es))

RECURSIVE SumClaudeCost(_)
SumClaudeCost(es) ==
    IF Len(es) = 0 THEN 0
    ELSE (IF Head(es).totalCostUSD # Null THEN unwrap(Head(es).totalCostUSD) ELSE 0)
            + SumClaudeCost(Tail(es))

\* Mutant of formatRemainingTime: the minutes are not reduced to the running hour.
formatRemainingTime_TotalMinutes(ms) ==
    LET hours == Max(0, ms \div (60 * 60 * 1000))
        minutes == Max(0, ms \div (60 * 1000))
    IN  <<hours, "h ", minutes, "m">>

\* formatRemainingTime: `${hours}h ${minutes}m`
formatRemainingTime(ms) ==
    LET hours == Max(0, ms \div (60 * 60 * 1000))
        minutes == Max(0, (ms % (60 * 60 * 1000)) \div (60 * 1000))
    IN  <<hours, "h ", minutes, "m">>

\* lines 192-223: the ClaudeUsageData built from the collected entries
ClaudeUsageData(es, dirs, t) ==
    IF Len(es) = 0
    THEN [provider |-> "claude", available |-> Len(dirs) > 0, hasData |-> FALSE,
          remainingTime |-> formatRemainingTime(CLAUDE_SESSION_DURATION_MS),
          costUSD |-> 0, totalTokens |-> 0, activeBlockEnd |-> Null, blockCount |-> 0]
    ELSE LET sorted == SortByTimestamp(es)
             latestTimestamp == sorted[Len(sorted)].timestamp
             remainingMs == Max(0, (latestTimestamp + CLAUDE_SESSION_DURATION_MS) - t)
         IN  [provider |-> "claude", available |-> Len(dirs) > 0, hasData |-> TRUE,
              remainingTime |-> formatRemainingTime(remainingMs),
              costUSD |-> SumClaudeCost(sorted), totalTokens |-> SumClaudeTokens(sorted),
              activeBlockEnd |-> Some(latestTimestamp + CLAUDE_SESSION_DURATION_MS),
              blockCount |-> 1]

\* os.homedir()
HomeDir == <<"home">>

\* Mutant of pathExists: every path is taken to exist.
pathExists_Always(env, dir) == TRUE

pathExists(env, dir) == dir \in env.existing

\* String.prototype.split(','): the pieces between the commas.
RECURSIVE SplitOnComma(_, _)
SplitOnComma(str, segment) ==
    IF Len(str) = 0 THEN <<segment>>
    ELSE IF Head(str) = "," THEN <<segment>> \o SplitOnComma(Tail(str), <<>>)
    ELSE SplitOnComma(Tail(str), Append(segment, Head(str)))

\* .map(segment => segment.trim()).filter(Boolean)
EnvPaths(envValue) ==
    LET segments == SplitOnComma(envValue, <<>>)
        trimmed == [i \in 1..Len(segments) |-> Trim(segments[i])]
    IN  SelectSeq(trimmed, LAMBDA segment : Len(segment) > 0)

ExistingOf(env, dirs) == SelectSeq(dirs, LAMBDA dir : pathExists(env, dir))

ClaudeDefaults == <<HomeDir \o <<".config", "claude">>, HomeDir \o <<".claude">>>>

\* Mutant of resolveClaudeDataDirectories: the defaults are returned unchecked.
resolveClaudeDataDirectories_Unchecked(env) ==
    LET envValue == IF env.CLAUDE_CONFIG_DIR # Null THEN Trim(unwrap(env.CLAUDE_CONFIG_DIR))
                    ELSE <<>>
        fromEnv == IF Len(envValue) > 0 THEN ExistingOf(env, EnvPaths(envValue)) ELSE <<>>
    IN  IF Len(fromEnv) > 0 THEN fromEnv ELSE ClaudeDefaults

\* Mutant of resolveClaudeDataDirectories: the defaults are added to the override.
resolveClaudeDataDirectories_Additive(env) ==
    LET envValue == IF env.CLAUDE_CONFIG_DIR # Null THEN Trim(unwrap(env.CLAUDE_CONFIG_DIR))
                    ELSE <<>>
        fromEnv == IF Len(envValue) > 0 THEN ExistingOf(env, EnvPaths(envValue)) ELSE <<>>
    IN  fromEnv \o ExistingOf(env, ClaudeDefaults)

\* resolveClaudeDataDirectories; the paths are absolute, so path.resolve keeps them.
resolveClaudeDataDirectories(env) ==
    LET envValue == IF env.CLAUDE_CONFIG_DIR # Null THEN Trim(unwrap(env.CLAUDE_CONFIG_DIR))
                    ELSE <<>>
        fromEnv == IF Len(envValue) > 0 THEN ExistingOf(env, EnvPaths(envValue)) ELSE <<>>
    IN  IF Len(fromEnv) > 0 THEN fromEnv ELSE ExistingOf(env, ClaudeDefaults)

\* lines 176-182: the projects directories that exist
ProjectDirsOf(env, dirs) ==
    ExistingOf(env, [i \in 1..Len(dirs) |-> dirs[i] \o <<"projects">>])

\* The directory the assistant writes its transcripts under.
TranscriptDir == <<"home", ".claude", "projects">>

\* Hosts: the default root with its transcripts; an override to a missing path and
\* no default; an override list whose only existing path holds no projects.
ClaudeEnvChoices ==
    { [CLAUDE_CONFIG_DIR |-> Null,
       existing |-> {<<"home", ".claude">>, TranscriptDir}],
      [CLAUDE_CONFIG_DIR |-> Some(<<Blank, "missing">>), existing |-> {}],
      [CLAUDE_CONFIG_DIR |-> Some(<<"missing", ",", Blank, ",", Blank, "alt">>),
       existing |-> {<<"alt">>, <<"home", ".claude">>, TranscriptDir}] }

RECURSIVE CountLines(_)
CountLines(files) ==
    IF Len(files) = 0 THEN 0 ELSE Len(Head(files).lines) + CountLines(Tail(files))

\* The transcripts collectJsonlFiles finds under the project directories of dirs.
FoundTranscripts(dirs, files) ==
    IF \E i \in 1..Len(dirs) : dirs[i] = TranscriptDir THEN files ELSE <<>>

\* lines 187-190: the entries of all transcripts, in the order they are parsed
RECURSIVE ParseTranscripts(_, _)
ParseTranscripts(files, windowStart) ==
    IF Len(files) = 0 THEN <<>>
    ELSE parseClaudeTranscript(Head(files), windowStart)
            \o ParseTranscripts(Tail(files), windowStart)

\* loadClaudeUsage() as one call that reads instant t as `new Date()` on a host
\* with environment env and transcripts files.
loadClaudeUsage(files, env, t) ==
    LET dirs == resolveClaudeDataDirectories(env)
        found == FoundTranscripts(ProjectDirsOf(env, dirs), files)
    IN  ClaudeUsageData(ParseTranscripts(found, t - CLAUDE_SESSION_DURATION_MS), dirs, t)

(***************************************************************************)
(* loadClaudeUsage as a state machine over append-only transcripts         *)
(*                                                                         *)
(* claudePc = "done" is the state in which the call has just returned; the *)
(* transcripts change only between calls.                                  *)
(***************************************************************************)

\* No loadClaudeUsage call is in progress and the last result has been handed over.
ClaudeCallGone ==
    /\ claudePc' = "idle"
    /\ now' = 0
    /\ claudeEnv' = [CLAUDE_CONFIG_DIR |-> Null, existing |-> {}]
    /\ claudeDirs' = <<>>
    /\ projectDirs' = <<>>
    /\ parsed' = 0
    /\ entries' = <<>>
    /\ claudeResult' = Null

\* The assistant appends a line to its newest transcript.
AppendToTranscript ==
    /\ claudePc \in {"idle", "done"}
    /\ Len(transcripts) > 0
    /\ transcripts[1].readable
    /\ CountLines(transcripts) < MaxClaudeLines
    /\ \E line \in ClaudeLineAlphabet :
        transcripts' = [transcripts EXCEPT ![1].lines = Append(@, line)]
    /\ ClaudeCallGone

\* The assistant starts a new transcript with a first line; it becomes the newest.
NewTranscript ==
    /\ claudePc \in {"idle", "done"}
    /\ CountLines(transcripts) < MaxClaudeLines
    /\ \E line \in ClaudeLineAlphabet :
        transcripts' = <<[readable |-> TRUE, lines |-> <<line>>]>> \o transcripts
    /\ ClaudeCallGone

\* The oldest transcript is one the reader cannot open (permissions, removal under
\* the reader).
TranscriptUnreadable ==
    /\ claudePc \in {"idle", "done"}
    /\ Len(transcripts) = 0
    /\ transcripts' = <<[readable |-> FALSE, lines |-> <<>>]>> \o transcripts
    /\ ClaudeCallGone

\* Mutant of ClaudeStart: the entries of the previous call are kept (as if the
\* service held them in a field).
ClaudeStart_KeepsEntries ==
    /\ claudePc \in {"idle", "done"}
    /\ \E t \in NowValues : now' = t
    /\ \E env \in ClaudeEnvChoices :
        /\ claudeEnv' = env
        /\ claudeDirs' = resolveClaudeDataDirectories(env)
        /\ projectDirs' = ProjectDirsOf(env, claudeDirs')
    /\ claudePc' = "parsing"
    /\ parsed' = 0
    /\ claudeResult' = Null
    /\ UNCHANGED <<transcripts, entries>>

\* loadClaudeUsage(): lines 172-185
ClaudeStart ==
    /\ claudePc \in {"idle", "done"}
    /\ \E t \in NowValues : now' = t
    /\ \E env \in ClaudeEnvChoices :
        /\ claudeEnv' = env
        /\ claudeDirs' = resolveClaudeDataDirectories(env)
        /\ projectDirs' = ProjectDirsOf(env, claudeDirs')
    /\ claudePc' = "parsing"
    /\ parsed' = 0
    /\ entries' = <<>>
    /\ claudeResult' = Null
    /\ UNCHANGED transcripts

\* One iteration of `for (const file of transcripts)`: lines 187-190
ClaudeParseTranscript ==
    /\ claudePc = "parsing"
    /\ parsed < Len(FoundTranscripts(projectDirs, transcripts))
    /\ entries' = entries \o parseClaudeTranscript(
                     FoundTranscripts(projectDirs, transcripts)[parsed + 1],
                     now - CLAUDE_SESSION_DURATION_MS)
    /\ parsed' = parsed + 1
    /\ UNCHANGED <<transcripts, claudePc, now, claudeEnv, claudeDirs, projectDirs,
                   claudeResult>>

\* lines 192-223
ClaudeFinish ==
    /\ claudePc = "parsing"
    /\ parsed = Len(FoundTranscripts(projectDirs, transcripts))
    /\ claudeResult' = Some(ClaudeUsageData(entries, claudeDirs, now))
    /\ claudePc' = "done"
    /\ UNCHANGED <<transcripts, now, claudeEnv, claudeDirs, projectDirs, parsed, entries>>

NextClaude ==
    \/ AppendToTranscript
    \/ NewTranscript
    \/ TranscriptUnreadable
    \/ ClaudeStart
    \/ ClaudeParseTranscript
    \/ ClaudeFinish

(***************************************************************************)
(* loadCodexUsage: data                                                    *)
(***************************************************************************)

DAY_MS == 24 * 60 * 60 * 1000

HOUR_MS == 60 * 60 * 1000

\* Number of lines present in all session files together.
MaxCodexLines == 3

\* What a JavaScript number can be here: an integer or NaN.
Num(n) == [nan |-> FALSE, value |-> n]

NaN == [nan |-> TRUE, value |-> 0]

\* a + b and a * b; an operand that is undefined (Null) or NaN gives NaN.
Plus(a, b) == IF a.nan \/ b.nan THEN NaN ELSE Num(a.value + b.value)

Times(a, b) == IF a.nan \/ b = Null \/ unwrap(b).nan THEN NaN ELSE Num(a.value * unwrap(b).value)

\* obj[name]: the property when the object has it, else undefined.
Prop(obj, name) == IF name \in DOMAIN obj THEN Some(obj[name]) ELSE Null

\* Members every object literal inherits from Object.prototype (a selection).
ObjectPrototypeMembers ==
    { <<"constructor">>, <<"toString">>, <<"valueOf">>, <<"hasOwnProperty">>,
      <<"__proto__">> }

\* What reading such a member gives: a function or object without price fields.
InheritedMember == [length |-> Num(1)]

\* CODEX_MODEL_PRICING[id]: prices in thousandths of a dollar per million tokens.
\* The table is an object literal, so a key that is not its own is looked up in
\* Object.prototype; Null: undefined.
CODEX_MODEL_PRICING(id) ==
    CASE id = <<"gpt-5">> ->
            Some([inputCostPerMToken |-> Num(1250), cachedInputCostPerMToken |-> Num(125),
                  outputCostPerMToken |-> Num(10000)])
      [] id = <<"gpt-5-mini">> ->
            Some([inputCostPerMToken |-> Num(600), cachedInputCostPerMToken |-> Num(60),
                  outputCostPerMToken |-> Num(2000)])
      [] id = <<"gpt-4.1">> ->
            Some([inputCostPerMToken |-> Num(5000), cachedInputCostPerMToken |-> Num(500),
                  outputCostPerMToken |-> Num(15000)])
      [] id = <<"gpt-4.1-mini">> ->
            Some([inputCostPerMToken |-> Num(1000), cachedInputCostPerMToken |-> Num(100),
                  outputCostPerMToken |-> Num(4000)])
      [] id \in ObjectPrototypeMembers -> Some(InheritedMember)
      [] OTHER -> Null

CODEX_MODEL_ALIASES(id) ==
    CASE id = <<"gpt-5-codex">> -> Some(<<"gpt-5">>)
      [] id = <<"gpt-5o">> -> Some(<<"gpt-5">>)
      [] id = <<"gpt-5-mini-codex">> -> Some(<<"gpt-5-mini">>)
      [] id = <<"gpt-4.1-preview">> -> Some(<<"gpt-4.1">>)
      [] OTHER -> Null

\* String.prototype.toLowerCase on the pieces the logs use.
LowerPiece(piece) ==
    CASE piece = "GPT-5-Codex" -> "gpt-5-codex"
      [] piece = "toString" -> "tostring"
      [] OTHER -> piece

toLowerCase(str) == [i \in 1..Len(str) |-> LowerPiece(str[i])]

\* The host's resolved time zone.
HostTimeZone == <<"UTC">>

\* Offset of a zone from UTC; Null: Intl.DateTimeFormat rejects the zone (RangeError).
ZoneOffsetMs(timezone) ==
    CASE timezone = <<"UTC">> -> Some(0)
      [] timezone = <<"Asia/Tokyo">> -> Some(9 * HOUR_MS)
      [] OTHER -> Null

\* The instant loadCodexUsage reads as `new Date()`: 01:00 UTC of day 1.
CodexNow == DAY_MS + HOUR_MS

\* Instants of the logged events: today in every zone; the day before in UTC but
\* today in Tokyo.
Today == DAY_MS + 1

LateYesterday == DAY_MS - 1

ModelSource(text) == [NoModelSource EXCEPT !.model = Some(text)]

\* Deltas as the test fixture writes them.
FixtureDelta == RawUsage(Some(1000), Some(200), Null, Some(1500), Some(0), Some(2500))

SmallDelta == RawUsage(Some(30), Some(0), Null, Some(10), Some(5), Null)

TinyDelta == RawUsage(Some(4), Some(1), Null, Some(2), Null, Null)

CodexLineAlphabet ==
    { InvalidLine,
      Line(TRUE, "turn_context", "", At(Today), ModelSource(<<"gpt-5-mini">>), Null, Null),
      TokenCount(At(Today), NoModelSource, Some(FixtureDelta), Null),
      TokenCount(At(Today), ModelSource(<<"made-up-model-9">>), Some(SmallDelta), Null),
      TokenCount(At(LateYesterday), ModelSource(<<Blank, "GPT-5-Codex">>),
                 Some(SmallDelta), Null),
      TokenCount(At(Today), ModelSource(<<"toString">>), Some(TinyDelta), Null),
      TokenCount(At(Today), ModelSource(<<"gpt-5">>), Some(TinyDelta), Null) }

\* The UsageQueryOptions callers pass: no zone, a zone, a blank zone, an unknown zone.
CodexOptionChoices ==
    { [timezone |-> Null], [timezone |-> Some(<<"Asia/Tokyo">>)],
      [timezone |-> Some(<<Blank>>)], [timezone |-> Some(<<"Mars/Olympus">>)] }

DefaultSessionDir == <<"home", ".codex", "sessions">>

\* Environments: CODEX_HOME unset or set, and which session directories exist.
\* The session files live in the default session directory.
CodexEnvChoices ==
    { [CODEX_HOME |-> Null, existing |-> {DefaultSessionDir}],
      [CODEX_HOME |-> Null, existing |-> {}],
      [CODEX_HOME |-> Some(<<"alt">>), existing |-> {DefaultSessionDir}],
      [CODEX_HOME |-> Some(<<"home", ".codex">>), existing |-> {DefaultSessionDir}] }

(***************************************************************************)
(* loadCodexUsage: helpers                                                 *)
(***************************************************************************)

\* resolveTimeZone: the preferred zone unless it is missing or blank.
resolveTimeZone(preferred) ==
    IF preferred # Null /\ Len(Trim(unwrap(preferred))) > 0 THEN unwrap(preferred)
    ELSE HostTimeZone

\* toDateKey: the calendar day of the instant in the zone (the day number stands for
\* the 'YYYY-MM-DD' text).
toDateKey(value, timezone) == (value + unwrap(ZoneOffsetMs(timezone))) \div DAY_MS

\* Array.from(new Set(directories)): first occurrences, in order.
RECURSIVE Dedup(_)
Dedup(seq) ==
    IF Len(seq) = 0 THEN <<>>
    ELSE LET init == Dedup(SubSeq(seq, 1, Len(seq) - 1))
             last == seq[Len(seq)]
         IN  IF \E i \in 1..Len(init) : init[i] = last THEN init ELSE Append(init, last)

\* Mutant of resolveCodexSessionDirectories: the list is returned as collected.
resolveCodexSessionDirectories_NoDedup(env) ==
    LET fromEnv == IF env.CODEX_HOME # Null /\ Len(Trim(unwrap(env.CODEX_HOME))) > 0
                   THEN <<Trim(unwrap(env.CODEX_HOME)) \o <<"sessions">>>>
                   ELSE <<>>
    IN  fromEnv \o <<HomeDir \o <<".codex", "sessions">>>>

resolveCodexSessionDirectories(env) ==
    LET fromEnv == IF env.CODEX_HOME # Null /\ Len(Trim(unwrap(env.CODEX_HOME))) > 0
                   THEN <<Trim(unwrap(env.CODEX_HOME)) \o <<"sessions">>>>
                   ELSE <<>>
    IN  Dedup(fromEnv \o <<HomeDir \o <<".codex", "sessions">>>>)

\* The for loop of parseCodexSession over all lines of a file.
RECURSIVE FoldLines(_, _)
FoldLines(st, ls) ==
    IF Len(ls) = 0 \/ st.thrown THEN st ELSE FoldLines(ParseLine(st, Head(ls)), Tail(ls))

\* parseCodexSession(file): { events, issues }
parseCodexSession(file) ==
    IF ~file.readable THEN [events |-> <<>>, issues |-> <<"Failed to read session">>]
    ELSE LET st == FoldLines(FreshParserState, file.lines)
         IN  [events |-> st.events,
              issues |-> IF st.legacyFallbackUsed /\ ~st.thrown
                         THEN Append(st.issues, LegacyIssue)
                         ELSE st.issues]

\* `${path.basename(file)}: ${issue}`
FileIssues(file, fileIssues) ==
    [i \in 1..Len(fileIssues) |-> <<file.name, ": ", fileIssues[i]>>]

\* Mutant of ScanFiles: the parser is not reset between files, as if the files of
\* a directory were one file.
RECURSIVE AllLinesOf(_)
AllLinesOf(files) ==
    IF Len(files) = 0 THEN <<>> ELSE Head(files).lines \o AllLinesOf(Tail(files))

ScanFiles_CarriesState(acc, files) ==
    IF Len(files) = 0 THEN acc
    ELSE LET result == parseCodexSession([Head(files) EXCEPT !.lines = AllLinesOf(files)])
         IN  [events |-> acc.events \o result.events,
              issues |-> acc.issues \o FileIssues(Head(files), result.issues)]

\* lines 241-248: every file of an existing directory, in collectJsonlFiles order
RECURSIVE ScanFiles(_, _)
ScanFiles(acc, files) ==
    IF Len(files) = 0 THEN acc
    ELSE LET result == parseCodexSession(Head(files))
         IN  ScanFiles([events |-> acc.events \o result.events,
                        issues |-> acc.issues \o FileIssues(Head(files), result.issues)],
                       Tail(files))

\* The session files collectJsonlFiles finds under dir.
FilesUnder(dir, files) == IF dir = DefaultSessionDir THEN files ELSE <<>>

createEmptyUsage ==
    [inputTokens |-> 0, cachedInputTokens |-> 0, outputTokens |-> 0,
     reasoningOutputTokens |-> 0, totalTokens |-> 0]

addUsage(target, delta) ==
    [inputTokens |-> target.inputTokens + delta.inputTokens,
     cachedInputTokens |-> target.cachedInputTokens + delta.cachedInputTokens,
     outputTokens |-> target.outputTokens + delta.outputTokens,
     reasoningOutputTokens |-> target.reasoningOutputTokens + delta.reasoningOutputTokens,
     totalTokens |-> target.totalTokens + delta.totalTokens]

\* Mutant of calculateCostUSD: the cached tokens are also charged the input rate.
calculateCostUSD_FullInput(usage, pricing) ==
    LET inputCost == Times(Num(usage.inputTokens), Prop(pricing, "inputCostPerMToken"))
        cachedCost == Times(Num(usage.cachedInputTokens),
                            Prop(pricing, "cachedInputCostPerMToken"))
        outputCost == Times(Num(usage.outputTokens), Prop(pricing, "outputCostPerMToken"))
    IN  Plus(Plus(inputCost, cachedCost), outputCost)

\* Costs are counted in billionths of a dollar: tokens / 1e6 * (rate / 1e3).
calculateCostUSD(usage, pricing) ==
    LET inputCost == Times(Num(usage.inputTokens - usage.cachedInputTokens),
                           Prop(pricing, "inputCostPerMToken"))
        cachedCost == Times(Num(usage.cachedInputTokens),
                            Prop(pricing, "cachedInputCostPerMToken"))
        outputCost == Times(Num(usage.outputTokens), Prop(pricing, "outputCostPerMToken"))
    IN  Plus(Plus(inputCost, cachedCost), outputCost)

lookupCodexPricing(model) ==
    LET lower == toLowerCase(model)
        aliasTarget == CODEX_MODEL_ALIASES(lower)
    IN  IF aliasTarget # Null /\ CODEX_MODEL_PRICING(unwrap(aliasTarget)) # Null
        THEN CODEX_MODEL_PRICING(unwrap(aliasTarget))
        ELSE Coalesce(CODEX_MODEL_PRICING(lower), CODEX_MODEL_PRICING(model))

RECURSIVE SumUsage(_)
SumUsage(evs) ==
    IF Len(evs) = 0 THEN createEmptyUsage
    ELSE addUsage(SumUsage(SubSeq(evs, 1, Len(evs) - 1)), evs[Len(evs)].usage)

\* Mutant of GroupByModel: a group keeps the flag of its latest event.
RECURSIVE GroupByModel_LatestFlag(_)
GroupByModel_LatestFlag(evs) ==
    IF Len(evs) = 0 THEN <<>>
    ELSE LET groups == GroupByModel_LatestFlag(SubSeq(evs, 1, Len(evs) - 1))
             event == evs[Len(evs)]
         IN  IF Len(event.model) = 0 THEN groups
             ELSE IF \E i \in 1..Len(groups) : groups[i].model = event.model
             THEN [i \in 1..Len(groups) |->
                     IF groups[i].model = event.model
                     THEN [model |-> groups[i].model,
                           usage |-> addUsage(groups[i].usage, event.usage),
                           isFallback |-> event.isFallbackModel]
                     ELSE groups[i]]
             ELSE Append(groups, [model |-> event.model,
                                  usage |-> addUsage(createEmptyUsage, event.usage),
                                  isFallback |-> event.isFallbackModel])

\* lines 297-311: the perModel map, in insertion order
RECURSIVE GroupByModel(_)
GroupByModel(evs) ==
    IF Len(evs) = 0 THEN <<>>
    ELSE LET groups == GroupByModel(SubSeq(evs, 1, Len(evs) - 1))
             event == evs[Len(evs)]
         IN  IF Len(event.model) = 0 THEN groups
             ELSE IF \E i \in 1..Len(groups) : groups[i].model = event.model
             THEN [i \in 1..Len(groups) |->
                     IF groups[i].model = event.model
                     THEN [model |-> groups[i].model,
                           usage |-> addUsage(groups[i].usage, event.usage),
                           isFallback |-> groups[i].isFallback \/ event.isFallbackModel]
                     ELSE groups[i]]
             ELSE Append(groups, [model |-> event.model,
                                  usage |-> addUsage(createEmptyUsage, event.usage),
                                  isFallback |-> event.isFallbackModel])

\* lines 315-332: one CodexModelUsageSummary per group
ModelSummary(group) ==
    LET pricing == lookupCodexPricing(group.model)
    IN  [model |-> group.model, usage |-> group.usage,
         costUSD |-> IF pricing # Null
                     THEN Some(calculateCostUSD(group.usage, unwrap(pricing)))
                     ELSE Null,
         isFallbackModel |-> group.isFallback]

ModelSummaries(groups) == [i \in 1..Len(groups) |-> ModelSummary(groups[i])]

\* lines 322-324: one issue per group without a price
RECURSIVE PricingIssues(_)
PricingIssues(groups) ==
    IF Len(groups) = 0 THEN <<>>
    ELSE (IF lookupCodexPricing(Head(groups).model) = Null
          THEN <<<<"Pricing not found for model ">> \o Head(groups).model>>
          ELSE <<>>) \o PricingIssues(Tail(groups))

\* totalCost: the sum of the costs of the priced groups (lines 314-321)
RECURSIVE TotalCost(_)
TotalCost(summaries) ==
    IF Len(summaries) = 0 THEN Num(0)
    ELSE LET rest == TotalCost(SubSeq(summaries, 1, Len(summaries) - 1))
             last == summaries[Len(summaries)]
         IN  IF last.costUSD # Null THEN Plus(rest, unwrap(last.costUSD)) ELSE rest

\* lines 341-343: the overall costUSD
OverallCost(summaries) ==
    IF (\A i \in 1..Len(summaries) : summaries[i].costUSD # Null) /\ Len(summaries) > 0
    THEN Some(TotalCost(summaries))
    ELSE Null

\* modelSummaries.sort((a, b) => b.usage.totalTokens - a.usage.totalTokens) (stable)
RECURSIVE InsertByTotalDesc(_, _)
InsertByTotalDesc(sorted, x) ==
    IF Len(sorted) = 0 THEN <<x>>
    ELSE IF Head(sorted).usage.totalTokens >= x.usage.totalTokens
         THEN <<Head(sorted)>> \o InsertByTotalDesc(Tail(sorted), x)
         ELSE <<x>> \o sorted

RECURSIVE SortByTotalDesc(_)
SortByTotalDesc(xs) ==
    IF Len(xs) = 0 THEN <<>>
    ELSE InsertByTotalDesc(SortByTotalDesc(SubSeq(xs, 1, Len(xs) - 1)), xs[Len(xs)])

\* Mutant of IsToday: the event's day is taken in the host's zone.
IsToday_HostZone(event, todayKey, timezone) ==
    toDateKey(event.timestamp, HostTimeZone) = todayKey

\* line 271: the filter of todaysEvents
IsToday(event, todayKey, timezone) == toDateKey(event.timestamp, timezone) = todayKey

\* lines 251-348: the CodexUsageData built from what the scan collected
CodexUsageData(evs, dirs, missing, iss, timezone, t) ==
    LET todayKey == toDateKey(t, timezone)
        sorted == SortByTimestamp(evs)
        todaysEvents == SelectSeq(sorted, LAMBDA e : IsToday(e, todayKey, timezone))
        base == [provider |-> "codex", hasData |-> FALSE, dateKey |-> todayKey,
                 totalTokens |-> 0, costUSD |-> Null, models |-> <<>>,
                 timezone |-> timezone, missingDirectories |-> missing, issues |-> iss,
                 available |-> Len(dirs) > 0 /\ Len(missing) # Len(dirs)]
    IN  IF Len(evs) = 0 THEN base
        ELSE IF Len(todaysEvents) = 0 THEN [base EXCEPT !.available = Len(dirs) > 0]
        ELSE LET groups == GroupByModel(todaysEvents)
                 modelSummaries == ModelSummaries(groups)
             IN  [base EXCEPT
                    !.hasData = TRUE,
                    !.totalTokens = SumUsage(todaysEvents).totalTokens,
                    !.costUSD = OverallCost(modelSummaries),
                    !.models = SortByTotalDesc(modelSummaries),
                    !.issues = iss \o PricingIssues(groups)]

\* lines 235-249: the loop over the candidate directories
RECURSIVE ScanDirs(_, _, _, _)
ScanDirs(acc, dirs, env, files) ==
    IF Len(dirs) = 0 THEN acc
    ELSE IF ~pathExists(env, Head(dirs))
         THEN ScanDirs([acc EXCEPT !.missing = Append(@, Head(dirs))], Tail(dirs), env, files)
         ELSE LET got == ScanFiles([events |-> acc.events, issues |-> acc.issues],
                                   FilesUnder(Head(dirs), files))
              IN  ScanDirs([acc EXCEPT !.events = got.events, !.issues = got.issues],
                           Tail(dirs), env, files)

\* loadCodexUsage(options) as one function of the session files (newest first), the
\* environment and the instant read as now.
loadCodexUsage(files, env, options, t) ==
    LET dirs == resolveCodexSessionDirectories(env)
        got == ScanDirs([events |-> <<>>, issues |-> <<>>, missing |-> <<>>], dirs, env,
                        files)
    IN  CodexUsageData(got.events, dirs, got.missing, got.issues,
                       resolveTimeZone(options.timezone), t)

(***************************************************************************)
(* loadCodexUsage as a state machine over append-only session files        *)
(*                                                                         *)
(* codexPc = "done" / "thrown" is the state in which the call has just     *)
(* ended; the session files change only between calls (codexPc = "idle").  *)
(***************************************************************************)

\* The caller has taken the outcome of the call (line 146).
CodexCallEnds ==
    /\ codexPc \in {"done", "thrown"}
    /\ codexPc' = "idle"
    /\ codexEnv' = [CODEX_HOME |-> Null, existing |-> {}]
    /\ codexOptions' = [timezone |-> Null]
    /\ sessionDirs' = <<>>
    /\ scanned' = 0
    /\ codexEvents' = <<>>
    /\ missingDirectories' = <<>>
    /\ codexIssues' = <<>>
    /\ codexResult' = Null
    /\ UNCHANGED sessions

\* What a call leaves behind; untouched while no call runs.
codexCallVars == <<codexPc, codexEnv, codexOptions, sessionDirs, scanned, codexEvents,
                   missingDirectories, codexIssues, codexResult>>

RECURSIVE CountSessionLines(_)
CountSessionLines(files) ==
    IF Len(files) = 0 THEN 0 ELSE Len(Head(files).lines) + CountSessionLines(Tail(files))

\* Codex appends a line to its newest session file.
AppendToSession ==
    /\ codexPc = "idle"
    /\ Len(sessions) > 0
    /\ CountSessionLines(sessions) < MaxCodexLines
    /\ \E line \in CodexLineAlphabet :
        sessions' = [sessions EXCEPT ![1].lines = Append(@, line)]
    /\ UNCHANGED codexCallVars

\* The base names of the session files, in the order Codex creates them.
SessionNames == <<"rollout-1.jsonl", "rollout-2.jsonl">>

\* Codex starts a new session file with a first line; it becomes the newest.
NewSession ==
    /\ codexPc = "idle"
    /\ Len(sessions) < Len(SessionNames)
    /\ CountSessionLines(sessions) < MaxCodexLines
    /\ \E line \in CodexLineAlphabet :
        sessions' = <<[name |-> SessionNames[Len(sessions) + 1], readable |-> TRUE,
                       lines |-> <<line>>]>> \o sessions
    /\ UNCHANGED codexCallVars

\* loadCodexUsage(options): lines 227-233
CodexStart ==
    /\ codexPc = "idle"
    /\ \E o \in CodexOptionChoices : codexOptions' = o
    /\ \E env \in CodexEnvChoices :
        /\ codexEnv' = env
        /\ sessionDirs' = resolveCodexSessionDirectories(env)
    /\ codexPc' = "scanning"
    /\ UNCHANGED <<sessions, scanned, codexEvents, missingDirectories, codexIssues,
                   codexResult>>

\* One iteration of `for (const dir of sessionDirs)`: lines 235-249
CodexScanDir ==
    /\ codexPc = "scanning"
    /\ scanned < Len(sessionDirs)
    /\ LET dir == sessionDirs[scanned + 1]
       IN  IF ~pathExists(codexEnv, dir)
           THEN /\ missingDirectories' = Append(missingDirectories, dir)
                /\ UNCHANGED <<codexEvents, codexIssues>>
           ELSE LET got == ScanFiles([events |-> codexEvents, issues |-> codexIssues],
                                     FilesUnder(dir, sessions))
                IN  /\ codexEvents' = got.events
                    /\ codexIssues' = got.issues
                    /\ UNCHANGED missingDirectories
    /\ scanned' = scanned + 1
    /\ UNCHANGED <<sessions, codexPc, codexEnv, codexOptions, sessionDirs, codexResult>>

\* lines 251-348 with a zone Intl accepts
CodexFinish ==
    /\ codexPc = "scanning"
    /\ scanned = Len(sessionDirs)
    /\ ZoneOffsetMs(resolveTimeZone(codexOptions.timezone)) # Null
    /\ codexResult' = Some(CodexUsageData(codexEvents, sessionDirs, missingDirectories,
                                          codexIssues,
                                          resolveTimeZone(codexOptions.timezone), CodexNow))
    /\ codexIssues' = unwrap(codexResult').issues
    /\ codexPc' = "done"
    /\ UNCHANGED <<sessions, codexEnv, codexOptions, sessionDirs, scanned, codexEvents,
                   missingDirectories>>

\* toDateKey throws RangeError for a zone Intl rejects (lines 252, 270)
CodexThrows ==
    /\ codexPc = "scanning"
    /\ scanned = Len(sessionDirs)
    /\ ZoneOffsetMs(resolveTimeZone(codexOptions.timezone)) = Null
    /\ codexPc' = "thrown"
    /\ UNCHANGED <<sessions, codexEnv, codexOptions, sessionDirs, scanned, codexEvents,
                   missingDirectories, codexIssues, codexResult>>

NextCodex ==
    \/ AppendToSession
    \/ NewSession
    \/ CodexStart
    \/ CodexScanDir
    \/ CodexFinish
    \/ CodexThrows
    \/ CodexCallEnds

(***************************************************************************)
(* Root resolution on changing hosts                                       *)
(***************************************************************************)

\* Values of CLAUDE_CONFIG_DIR: unset, blank, one path, lists with blanks, empty
\* segments and repeated paths, a platform default.
ClaudeOverrideValues ==
    { Null,
      Some(<<Blank>>),
      Some(<<"alt">>),
      Some(<<Blank, "alt", Blank, ",", "other">>),
      Some(<<"alt", ",", ",", "alt">>),
      Some(<<"home", ".claude">>),
      Some(<<"other", ",", Blank, "home", ".config", "claude">>) }

\* Values of CODEX_HOME: unset, blank, a path, the default home padded with blanks.
CodexHomeValues ==
    { Null, Some(<<Blank>>), Some(<<"alt">>), Some(<<"other", Blank>>),
      Some(<<Blank, "home", ".codex", Blank>>) }

\* The directories that may exist on a host.
RootCandidates ==
    { <<"alt">>, <<"other">>, <<"home", ".config", "claude">>, <<"home", ".claude">> }

HostEnvs ==
    [CLAUDE_CONFIG_DIR : ClaudeOverrideValues, CODEX_HOME : CodexHomeValues,
     existing : SUBSET RootCandidates]

\* The environment or the disk changes between two resolutions.
HostChanges ==
    /\ \E env \in HostEnvs : hostEnv' = env
    /\ rootsPc' = "idle"
    /\ claudeRoots' = <<>>
    /\ codexRoots' = <<>>

\* await resolveClaudeDataDirectories() (line 175)
ResolveClaudeRoots ==
    /\ rootsPc = "idle"
    /\ claudeRoots' = resolveClaudeDataDirectories(hostEnv)
    /\ rootsPc' = "claude"
    /\ UNCHANGED <<hostEnv, codexRoots>>

\* await resolveCodexSessionDirectories() (line 229)
ResolveCodexRoots ==
    /\ rootsPc = "idle"
    /\ codexRoots' = resolveCodexSessionDirectories(hostEnv)
    /\ rootsPc' = "codex"
    /\ UNCHANGED <<hostEnv, claudeRoots>>

NextRoots ==
    \/ HostChanges
    \/ ResolveClaudeRoots
    \/ ResolveCodexRoots

(***************************************************************************)
(* collectJsonlFiles over a growing directory tree                         *)
(*                                                                         *)
(* A path is the index of its file in `disk`; the directories are fixed.   *)
(***************************************************************************)

\* Number of files on disk.
MaxFiles == 3

DirA == <<"A">>

DirNested == <<"A", "n">>

DirDeep == <<"A", "n", "d">>

DirB == <<"B">>

\* readdir: the subdirectories of a directory.
SubDirs(dir) ==
    CASE dir = DirA -> <<DirNested>>
      [] dir = DirNested -> <<DirDeep>>
      [] OTHER -> <<>>

File(dir, ext, mtimeMs, statOk) ==
    [dir |-> dir, ext |-> ext, mtimeMs |-> mtimeMs, statOk |-> statOk]

\* The files that may appear: logs and another file at the top, nested logs two
\* levels deep, logs under a second root, a log that vanishes before its stat.
FileAlphabet ==
    { File(DirA, "jsonl", 1, TRUE), File(DirA, "jsonl", 2, TRUE), File(DirA, "txt", 2, TRUE),
      File(DirNested, "jsonl", 2, TRUE), File(DirDeep, "jsonl", 1, TRUE),
      File(DirB, "jsonl", 1, TRUE), File(DirB, "jsonl", 3, TRUE),
      File(DirNested, "jsonl", 3, FALSE) }

\* The directories that may be unreadable.
UnreadableChoices == {{}, {DirNested}, {DirDeep}, {DirB}}

\* The roots and limits of the calls: one root or two, no limit or a positive one.
RootChoices == {<<DirA>>, <<DirB, DirA>>}

LimitChoices == {Null, Some(1), Some(2)}

Indices(seq) == [i \in 1..Len(seq) |-> i]

\* entry.isFile() && entry.name.endsWith('.jsonl'), and safeStat succeeded
LogFilesIn(dir, files) ==
    SelectSeq(Indices(files),
              LAMBDA i : files[i].dir = dir /\ files[i].ext = "jsonl" /\ files[i].statOk)

\* Mutant of SortByMtimeDesc: the files are returned in the order they were found.
SortByMtimeDesc_Unsorted(paths, files) == paths

\* files.sort((a, b) => b.mtimeMs - a.mtimeMs) (stable)
RECURSIVE SortByMtimeDesc(_, _)
SortByMtimeDesc(paths, files) ==
    IF Len(paths) = 0 THEN <<>>
    ELSE LET sorted == SortByMtimeDesc(SubSeq(paths, 1, Len(paths) - 1), files)
             x == paths[Len(paths)]
             before == SelectSeq(sorted, LAMBDA y : files[y].mtimeMs >= files[x].mtimeMs)
             after == SelectSeq(sorted, LAMBDA y : files[y].mtimeMs < files[x].mtimeMs)
         IN  before \o <<x>> \o after

RECURSIVE collectJsonlFiles(_, _, _, _)
RECURSIVE EntriesUnder(_, _, _)
RECURSIVE NestedUnder(_, _, _)

\* The nested collections of the subdirectories, each path statted again.
NestedUnder(dirs, files, blocked) ==
    IF Len(dirs) = 0 THEN <<>>
    ELSE SelectSeq(collectJsonlFiles(<<Head(dirs)>>, Null, files, blocked),
                   LAMBDA i : files[i].statOk)
            \o NestedUnder(Tail(dirs), files, blocked)

\* The try block for one root: nothing when readdir fails.
EntriesUnder(root, files, blocked) ==
    IF root \in blocked THEN <<>>
    ELSE LogFilesIn(root, files) \o NestedUnder(SubDirs(root), files, blocked)

RECURSIVE EntriesUnderAll(_, _, _)
EntriesUnderAll(roots, files, blocked) ==
    IF Len(roots) = 0 THEN <<>>
    ELSE EntriesUnder(Head(roots), files, blocked)
            \o EntriesUnderAll(Tail(roots), files, blocked)

collectJsonlFiles(roots, limit, files, blocked) ==
    LET sorted == SortByMtimeDesc(EntriesUnderAll(roots, files, blocked), files)
    IN  IF limit # Null /\ unwrap(limit) # 0 /\ Len(sorted) > unwrap(limit)
        THEN SubSeq(sorted, 1, unwrap(limit))
        ELSE sorted

\* A file appears on disk.
NewFile ==
    /\ Len(disk) < MaxFiles
    /\ \E f \in FileAlphabet : disk' = Append(disk, f)
    /\ collectPc' = "idle"
    /\ collectRoots' = <<>>
    /\ collectLimit' = Null
    /\ collected' = <<>>
    /\ UNCHANGED unreadable

\* The permissions of the directories change.
PermissionsChange ==
    /\ \E dirs \in UnreadableChoices : dirs # unreadable /\ unreadable' = dirs
    /\ collectPc' = "idle"
    /\ collectRoots' = <<>>
    /\ collectLimit' = Null
    /\ collected' = <<>>
    /\ UNCHANGED disk

\* await collectJsonlFiles(roots, limit) (lines 184, 240)
Collect ==
    /\ collectPc = "idle"
    /\ \E roots \in RootChoices, limit \in LimitChoices :
        /\ collectRoots' = roots
        /\ collectLimit' = limit
        /\ collected' = collectJsonlFiles(roots, limit, disk, unreadable)
    /\ collectPc' = "done"
    /\ UNCHANGED <<disk, unreadable>>

NextCollect ==
    \/ NewFile
    \/ PermissionsChange
    \/ Collect

(***************************************************************************)
(* Codex rate-limit windows                                                *)
(*                                                                         *)
(* The service code that derives the windows is not part of the sources    *)
(* at hand; this section follows the specification's description and the   *)
(* values the service's tests expect.  Instants are milliseconds from an   *)
(* epoch near enough for every instant to be a small integer.              *)
(***************************************************************************)

\* Number of times the clock moves on between queries.
MaxTicks == 2

\* The instant of the first query.
RateBaseNow == 1000 * 1000 * 1000

TEN_MINUTES_MS == 10 * 60 * 1000

\* A resets_at at or above this is epoch milliseconds, below it epoch seconds.
EpochMillisThreshold == 100 * 1000 * 1000

\* The jitter tolerated around the nominal window lengths.
WindowToleranceMinutes == 1

FIVE_HOUR_MINUTES == 300

WEEK_MINUTES == 10080

\* One window of a rate_limits object: used_percent, window_minutes and a reset
\* given as resets_in_seconds or as resets_at.
RawWindow(used, minutes, resetsIn, resetsAt) ==
    [used_percent |-> used, window_minutes |-> minutes,
     resets_in_seconds |-> resetsIn, resets_at |-> resetsAt]

WindowLengths == {299, 300, 301, 10079, 10080, 10081, 60}

\* Resets: half an hour and two hours after the event; one hour after the first
\* query in epoch seconds; two days after it in epoch milliseconds.
ResetForms ==
    { [resetsIn |-> Some(1800), resetsAt |-> Null],
      [resetsIn |-> Some(7200), resetsAt |-> Null],
      [resetsIn |-> Null, resetsAt |-> Some(RateBaseNow \div 1000 + 3600)],
      [resetsIn |-> Null, resetsAt |-> Some(RateBaseNow + 2 * 24 * 60 * 60 * 1000)] }

RawWindows ==
    { RawWindow(20, minutes, reset.resetsIn, reset.resetsAt) :
        minutes \in WindowLengths, reset \in ResetForms }

\* Mutant of labelForWindow: only the nominal lengths are recognised.
labelForWindow_Exact(windowMinutes) ==
    IF windowMinutes = FIVE_HOUR_MINUTES THEN Some("5h")
    ELSE IF windowMinutes = WEEK_MINUTES THEN Some("1 week")
    ELSE Null

\* The label of a window of the given length; Null: neither of the two named windows.
labelForWindow(windowMinutes) ==
    IF /\ windowMinutes >= FIVE_HOUR_MINUTES - WindowToleranceMinutes
       /\ windowMinutes <= FIVE_HOUR_MINUTES + WindowToleranceMinutes
    THEN Some("5h")
    ELSE IF /\ windowMinutes >= WEEK_MINUTES - WindowToleranceMinutes
            /\ windowMinutes <= WEEK_MINUTES + WindowToleranceMinutes
    THEN Some("1 week")
    ELSE Null

\* Mutant of resetInstantMs: a relative reset is counted from the query.
resetInstantMs_FromNow(raw, eventTimestamp, t) ==
    IF raw.resets_in_seconds # Null THEN t + 1000 * unwrap(raw.resets_in_seconds)
    ELSE IF unwrap(raw.resets_at) >= EpochMillisThreshold THEN unwrap(raw.resets_at)
    ELSE 1000 * unwrap(raw.resets_at)

\* The instant the window resets (the query reads the clock at t).
resetInstantMs(raw, eventTimestamp, t) ==
    IF raw.resets_in_seconds # Null
    THEN eventTimestamp + 1000 * unwrap(raw.resets_in_seconds)
    ELSE IF unwrap(raw.resets_at) >= EpochMillisThreshold THEN unwrap(raw.resets_at)
    ELSE 1000 * unwrap(raw.resets_at)

\* The RateLimitWindow derived from a reading at the instant t of the query.
rateLimitWindow(id, raw, eventTimestamp, t) ==
    [id |-> id,
     label |-> labelForWindow(raw.window_minutes),
     usedPercent |-> raw.used_percent,
     remainingPercent |-> Max(0, Min(100, 100 - raw.used_percent)),
     resetsInSeconds |-> (resetInstantMs(raw, eventTimestamp, t) - t) \div 1000]

\* A token-count event with rate_limits is logged, ten minutes before the first
\* query or at it; the reading of the chronologically latest event is the one kept.
RateTelemetry ==
    /\ ratePc \in {"idle", "done"}
    /\ \E ts \in {RateBaseNow - TEN_MINUTES_MS, RateBaseNow}, primary \in RawWindows,
          secondary \in RawWindows :
        /\ IF rateReading = Null THEN TRUE ELSE unwrap(rateReading).timestamp <= ts
        /\ primary.window_minutes < secondary.window_minutes
        /\ primary.resets_in_seconds # Null <=> secondary.resets_in_seconds # Null
        /\ rateReading' = Some([timestamp |-> ts, primary |-> primary,
                                secondary |-> secondary])
    /\ ratePc' = "idle"
    /\ rateLimits' = Null
    /\ UNCHANGED rateNow

\* Time passes between queries, a minute at a time.
RateClockTicks ==
    /\ ratePc \in {"idle", "done"}
    /\ rateNow < RateBaseNow + MaxTicks * 60 * 1000
    /\ rateNow' = rateNow + 60 * 1000
    /\ ratePc' = "idle"
    /\ rateLimits' = Null
    /\ UNCHANGED rateReading

\* A query derives both windows from the reading kept.
RateQuery ==
    /\ ratePc = "idle"
    /\ rateReading # Null
    /\ LET reading == unwrap(rateReading)
       IN  rateLimits' =
             Some([primary |-> rateLimitWindow("primary", reading.primary,
                                               reading.timestamp, rateNow),
                   secondary |-> rateLimitWindow("secondary", reading.secondary,
                                                 reading.timestamp, rateNow)])
    /\ ratePc' = "done"
    /\ UNCHANGED <<rateReading, rateNow>>

NextRate ==
    \/ RateTelemetry
    \/ RateClockTicks
    \/ RateQuery

(***************************************************************************)
(* The status bar refresh (src/src/extension.ts)                           *)
(*                                                                         *)
(* Every updateUsageDisplay() call is a refresh: it reads the              *)
(* configuration, awaits getUsage and then writes the status bar item.     *)
(* Nothing orders the completions of the getUsage calls of two refreshes.  *)
(***************************************************************************)

\* Number of refreshes started.
MaxRefreshes == 3

ProviderModes == {"claude", "codex", "both", "auto"}

\* What `await ccusageService.getUsage(providerMode)` can end with.
GetUsageOutcomes == {"summary", "error"}

\* updateUsageDisplay() up to the await: lines 344-351
StartRefresh(rs, cfg) == Append(rs, [providerMode |-> cfg.providerMode, state |-> "pending"])

\* activate(): the status bar item is created and shown, the timer is started and
\* the first refresh begins (lines 295-303).
Activate ==
    /\ uiPc = "inactive"
    /\ uiPc' = "active"
    /\ statusBarItem' = [refresh |-> 0, providerMode |-> "", shows |-> "nothing"]
    /\ refreshes' = StartRefresh(refreshes, uiConfig)
    /\ UNCHANGED uiConfig

\* The interval timer fires: lines 338-340
TimerTick ==
    /\ uiPc = "active"
    /\ Len(refreshes) < MaxRefreshes
    /\ refreshes' = StartRefresh(refreshes, uiConfig)
    /\ UNCHANGED <<uiPc, uiConfig, statusBarItem>>

\* The user changes ccusage.providerMode: the watcher starts a refresh (lines 305-314).
ConfigurationChanged ==
    /\ uiPc = "active"
    /\ Len(refreshes) < MaxRefreshes
    /\ \E m \in ProviderModes \ {uiConfig.providerMode} :
        /\ uiConfig' = [uiConfig EXCEPT !.providerMode = m]
        /\ refreshes' = StartRefresh(refreshes, uiConfig')
    /\ UNCHANGED <<uiPc, statusBarItem>>

\* The getUsage call of refresh i settles and the refresh writes the status bar
\* item: applyUsageSummary with the configuration it read (line 353), or the
\* error text (lines 356-358).
RefreshCompletes(i) ==
    /\ uiPc \in {"active", "deactivated"}
    /\ i \in 1..Len(refreshes)
    /\ refreshes[i].state = "pending"
    /\ \E outcome \in GetUsageOutcomes :
        /\ refreshes' = [refreshes EXCEPT ![i].state = outcome]
        /\ statusBarItem' = [refresh |-> i, providerMode |-> refreshes[i].providerMode,
                             shows |-> outcome]
    /\ UNCHANGED <<uiPc, uiConfig>>

\* deactivate(): the timer is cleared (lines 319-327); a getUsage call that is
\* still pending is not cancelled.
Deactivate ==
    /\ uiPc = "active"
    /\ uiPc' = "deactivated"
    /\ UNCHANGED <<uiConfig, refreshes, statusBarItem>>

NextRefresh ==
    \/ Activate
    \/ TimerTick
    \/ ConfigurationChanged
    \/ \E i \in 1..MaxRefreshes : RefreshCompletes(i)
    \/ Deactivate

Spec ==
    Init /\ [][NextFacade /\ UNCHANGED <<parseVars, claudeVars, codexVars, rootsVars,
                                          collectVars, rateVars, uiVars>>]_vars

SpecCodexParse ==
    Init /\ [][NextParse /\ UNCHANGED <<facadeVars, claudeVars, codexVars, rootsVars,
                                         collectVars, rateVars, uiVars>>]_vars

SpecClaude ==
    Init /\ [][NextClaude /\ UNCHANGED <<facadeVars, parseVars, codexVars, rootsVars,
                                          collectVars, rateVars, uiVars>>]_vars

SpecCodex ==
    Init /\ [][NextCodex /\ UNCHANGED <<facadeVars, parseVars, claudeVars, rootsVars,
                                         collectVars, rateVars, uiVars>>]_vars

SpecRoots ==
    Init /\ [][NextRoots /\ UNCHANGED <<facadeVars, parseVars, claudeVars, codexVars,
                                         collectVars, rateVars, uiVars>>]_vars

SpecCollect ==
    Init /\ [][NextCollect /\ UNCHANGED <<facadeVars, parseVars, claudeVars, codexVars,
                                           rootsVars, rateVars, uiVars>>]_vars

SpecRate ==
    Init /\ [][NextRate /\ UNCHANGED <<facadeVars, parseVars, claudeVars, codexVars,
                                        rootsVars, collectVars, uiVars>>]_vars

SpecRefresh ==
    Init /\ [][NextRefresh /\ UNCHANGED <<facadeVars, parseVars, claudeVars, codexVars,
                                           rootsVars, collectVars, rateVars>>]_vars

(***************************************************************************)
(* Properties of getUsage (checked under Spec)                             *)
(***************************************************************************)

Finished == pc \in {"returned", "thrown"}

OtherProvider(p) == IF p = "claude" THEN "codex" ELSE "claude"

\* sub occurs in s as a run of consecutive pieces.
Contains(s, sub) ==
    \E i \in 0..(Len(s) - Len(sub)) :
        \A j \in 1..Len(sub) : s[i + j] = sub[j]

\* The rendering 'provider: message' of a collected error.
Rendered(e) == <<e.provider, ": ">> \o e.error.message

\* The message of every collected error appears in the thrown message.
ListsEveryError ==
    \A i \in 1..Len(summary.errors) : Contains(thrown, Rendered(summary.errors[i]))

\* A rejection with an Error is collected with that Error's message.
CollectedFrom(p) ==
    \E i \in 1..Len(summary.errors) :
        /\ summary.errors[i].provider = p
        /\ unwrap(pipeline[p].value).kind = "Error"
            => summary.errors[i].error.message = unwrap(pipeline[p].value).message

\* C1: in mode both/auto, when exactly one pipeline throws and the other
\* completes, getUsage returns (does not throw), the summary holds the completed
\* provider's result untouched, and errors holds exactly one entry, tagged with
\* the failed provider - for either completion order.
C1_PartialFailureReturns ==
    (Finished /\ mode \in {"both", "auto"}) =>
        \A p \in Providers :
            (/\ pipeline[p].status = "rejected"
             /\ pipeline[OtherProvider(p)].status = "fulfilled") =>
                /\ pc = "returned"
                /\ summary[OtherProvider(p)] = pipeline[OtherProvider(p)].value
                /\ summary[p] = Null
                /\ Len(summary.errors) = 1
                /\ summary.errors[1].provider = p
                /\ CollectedFrom(p)

C1_Witness ==
    /\ pc = "returned"
    /\ mode = "both"
    /\ pipeline["claude"].status = "rejected"
    /\ pipeline["codex"].status = "fulfilled"
    /\ Len(summary.errors) = 1

\* C2: in mode claude (resp. codex), when that provider's pipeline fails,
\* getUsage throws an error whose message lists every collected error as
\* 'provider: message'; a normal return always carries the requested provider.
C2_SingleProviderFailureThrows ==
    (Finished /\ mode \in {"claude", "codex"}) =>
        /\ pipeline[mode].status = "rejected" =>
            /\ pc = "thrown"
            /\ Len(summary.errors) >= 1
            /\ CollectedFrom(mode)
            /\ ListsEveryError
        /\ pc = "returned" => summary[mode] # Null

C2_Witness ==
    /\ pc = "thrown"
    /\ mode = "codex"
    /\ pipeline["codex"].status = "rejected"
    /\ thrown = <<"Codex usage data is unavailable.", " (", "codex", ": ",
                  "Invalid time zone", ")">>

\* C3: in mode both/auto, when neither pipeline produced a result and at least
\* one error was collected, getUsage throws one composed error whose message
\* enumerates every failed provider's message, in either completion order.
C3_TotalFailureThrows ==
    (/\ Finished
     /\ mode \in {"both", "auto"}
     /\ summary.claude = Null
     /\ summary.codex = Null
     /\ Len(summary.errors) > 0) =>
        /\ pc = "thrown"
        /\ thrown[1] = "Failed to load usage data."
        /\ ListsEveryError
        /\ \A p \in Providers :
            pipeline[p].status = "rejected" =>
                /\ CollectedFrom(p)
                /\ \E i \in 1..Len(summary.errors) :
                    /\ summary.errors[i].provider = p
                    /\ Contains(thrown, Rendered(summary.errors[i]))

C3_Witness ==
    /\ pc = "thrown"
    /\ mode = "auto"
    /\ Len(summary.errors) = 2
    /\ summary.errors[1].provider = "codex"
    /\ summary.errors[2].provider = "claude"
    /\ Contains(thrown, <<"codex", ": ", "Invalid time zone", "; ",
                          "claude", ": ", "EACCES">>)

\* C4: when the mode selects no provider, getUsage throws 'No provider selected
\* for usage retrieval.', and up to that failure no pipeline was started and no
\* filesystem access was made.
C4_NoProviderSelected ==
    (pc # "idle" /\ mode \notin {"claude", "codex", "both", "auto"}) =>
        /\ \A p \in Providers : pipeline[p].status = "none"
        /\ fsAccess = {}
        /\ Finished =>
            /\ pc = "thrown"
            /\ thrown = <<"No provider selected for usage retrieval.">>

C4_Witness ==
    /\ pc = "thrown"
    /\ mode = "off"
    /\ thrown = <<"No provider selected for usage retrieval.">>

\* The providers a mode asks for.
RequestedBy(m) ==
    CASE m = "claude" -> {"claude"}
      [] m = "codex" -> {"codex"}
      [] m \in {"both", "auto"} -> {"claude", "codex"}
      [] OTHER -> {}

ErrorsOf(p) == {i \in 1..Len(summary.errors) : summary.errors[i].provider = p}

\* C27: when getUsage returns, every requested provider has either its result in
\* the summary and no entry in errors, or no result and exactly one entry in
\* errors; a provider that was not requested has neither; errors is empty in
\* modes claude and codex and has at most one entry in modes both and auto.
C27_EachProviderAccountedOnce ==
    pc = "returned" =>
        /\ \A p \in RequestedBy(mode) :
            \/ summary[p] # Null /\ ErrorsOf(p) = {}
            \/ summary[p] = Null /\ Cardinality(ErrorsOf(p)) = 1
        /\ \A p \in Providers \ RequestedBy(mode) :
            summary[p] = Null /\ ErrorsOf(p) = {}
        /\ mode \in {"claude", "codex"} => summary.errors = <<>>
        /\ mode \in {"both", "auto"} => Len(summary.errors) <= 1

\* Mode auto: Claude's result and one error for Codex.
C27_Witness ==
    /\ pc = "returned"
    /\ mode = "auto"
    /\ summary.claude # Null
    /\ summary.codex = Null
    /\ Cardinality(ErrorsOf("codex")) = 1
    /\ Len(summary.errors) = 1

(***************************************************************************)
(* Properties of parseCodexSession (checked under SpecCodexParse)          *)
(***************************************************************************)

UsageFields ==
    {"inputTokens", "cachedInputTokens", "outputTokens", "reasoningOutputTokens",
     "totalTokens"}

IsTokenCountLine(l) == l.valid /\ l.type = "event_msg" /\ l.payloadType = "token_count"

IsStampedTokenCountLine(l) == IsTokenCountLine(l) /\ parseTimestamp(l.ts) # Null

TokenCountLines == SelectSeq(lines, IsTokenCountLine)

\* A line the loop does not get past: JSON.parse succeeds, reading a property of
\* the value throws, and the catch at lines 604-606 ends the reading of the file.
IsThrowingLine(l) == l.valid /\ l.json = "null"

ReadCutShort == \E j \in 1..Len(lines) : IsThrowingLine(lines[j])

\* The lines of the file the loop reaches.
LinesReached ==
    IF ReadCutShort
    THEN SubSeq(lines, 1, CHOOSE j \in 1..Len(lines) :
                            /\ IsThrowingLine(lines[j])
                            /\ \A k \in 1..(j - 1) : ~IsThrowingLine(lines[k]))
    ELSE lines

StampedTokenCountLines == SelectSeq(LinesReached, IsStampedTokenCountLine)

\* Every token-count line of the file carries total_token_usage and no last_token_usage.
CumulativeOnlyFile ==
    /\ Len(TokenCountLines) > 0
    /\ \A i \in 1..Len(TokenCountLines) :
        TokenCountLines[i].last = Null /\ TokenCountLines[i].total # Null

\* The cumulative snapshot a line reports.
Snapshot(l) == unwrap(normalizeCodexUsage(l.total))

RECURSIVE SumOfDeltas(_, _)
SumOfDeltas(evs, f) ==
    IF Len(evs) = 0 THEN 0 ELSE Head(evs).usage[f] + SumOfDeltas(Tail(evs), f)

\* The amounts by which counter f went down between consecutive snapshots of ls.
RECURSIVE Decreases(_, _)
Decreases(ls, f) ==
    IF Len(ls) < 2 THEN 0
    ELSE Max(0, Snapshot(ls[1])[f] - Snapshot(ls[2])[f]) + Decreases(Tail(ls), f)

FinalTotal(ls, f) == IF Len(ls) = 0 THEN 0 ELSE Snapshot(ls[Len(ls)])[f]

C6_DeltaInvariant ==
    \A i \in 1..Len(events) :
        /\ \A f \in UsageFields : events[i].usage[f] >= 0
        /\ events[i].usage.cachedInputTokens <= events[i].usage.inputTokens

IsTurnContextLine(l) == l.valid /\ l.type = "turn_context"

\* The line carries a model: a turn_context or a token count with a usable model.
LineCarriesModel(l) ==
    (IsTurnContextLine(l) \/ IsTokenCountLine(l)) /\ extractCodexModel(l.src) # Null

FallbackIssueCount == Len(SelectSeq(issues, LAMBDA x : x = LegacyIssue))

C8_ModelResolutionOrder ==
    [][(parsePc = "reading" /\ parsePc' = "reading" /\ Len(lines') = Len(lines) + 1) =>
        LET line == lines'[Len(lines')]
            own == extractCodexModel(line.src)
        IN  /\ (IsTurnContextLine(line) /\ own # Null) =>
                /\ currentModel' = own
                /\ currentModelIsFallback' = FALSE
                /\ events' = events
            /\ Len(events') # Len(events) =>
                /\ Len(events') = Len(events) + 1
                /\ IsTokenCountLine(line)
                /\ LET e == events'[Len(events')]
                   IN  IF own # Null
                       THEN /\ e.model = unwrap(own)
                            /\ e.isFallbackModel = FALSE
                            /\ currentModel' = own
                            /\ currentModelIsFallback' = FALSE
                       ELSE IF currentModel # Null
                       THEN /\ e.model = unwrap(currentModel)
                            /\ e.isFallbackModel = currentModelIsFallback
                            /\ currentModel' = currentModel
                            /\ currentModelIsFallback' = currentModelIsFallback
                       ELSE /\ e.model = <<"gpt-5">>
                            /\ e.isFallbackModel = TRUE
                            /\ currentModel' = Some(<<"gpt-5">>)
                            /\ currentModelIsFallback' = TRUE
      ]_vars

C8_Witness ==
    /\ parsePc = "reading"
    /\ Len(events) = 3
    /\ events[1].model = <<"gpt-5">> /\ events[1].isFallbackModel
    /\ events[2].model = <<"gpt-5-mini">> /\ ~events[2].isFallbackModel
    /\ extractCodexModel(lines[3].src) = Null
    /\ events[3].model = <<"gpt-5-mini">> /\ ~events[3].isFallbackModel

\* C19: a line that fails JSON parsing adds exactly one issue, emits no event,
\* leaves currentModel, the fallback flag and the cumulative snapshot as they
\* were, and the loop goes on to the lines that follow.
C19_InvalidLineSkipped ==
    [][(parsePc = "reading" /\ Len(lines') > Len(lines) /\ ~lines'[Len(lines) + 1].valid) =>
        /\ issues' = Append(issues, "Invalid JSON line")
        /\ events' = events
        /\ currentModel' = currentModel
        /\ currentModelIsFallback' = currentModelIsFallback
        /\ legacyFallbackUsed' = legacyFallbackUsed
        /\ previousTotals' = previousTotals
        /\ parsePc' = "reading"]_vars

\* A model set by a turn_context survives an invalid line: the token count after
\* it is emitted with that model, and the file reports one issue.
C19_Witness ==
    /\ parsePc = "done"
    /\ Len(lines) = 3
    /\ IsTurnContextLine(lines[1]) /\ extractCodexModel(lines[1].src) # Null
    /\ ~lines[2].valid
    /\ IsTokenCountLine(lines[3]) /\ extractCodexModel(lines[3].src) = Null
    /\ Len(events) = 1
    /\ Some(events[1].model) = extractCodexModel(lines[1].src)
    /\ ~events[1].isFallbackModel
    /\ issues = <<"Invalid JSON line">>

\* C24: every timestamped token-count line that carries total_token_usage makes
\* that total the cumulative snapshot, whether the line's delta came from
\* last_token_usage or from subtraction and also when the delta is all zero and
\* no event is emitted; no other line changes the snapshot; and an event emitted
\* for a line with only total_token_usage carries the line's total less the
\* snapshot held before it, counter by counter and never below zero.
C24_SnapshotFollowsTotals ==
    [][(parsePc = "reading" /\ Len(lines') > Len(lines)) =>
        LET line == lines'[Len(lines) + 1]
            total == normalizeCodexUsage(line.total)
            carriesTotal == IsStampedTokenCountLine(line) /\ total # Null
        IN  /\ carriesTotal => previousTotals' = total
            /\ ~carriesTotal => previousTotals' = previousTotals
            /\ (carriesTotal /\ normalizeCodexUsage(line.last) = Null
                    /\ Len(events') > Len(events)) =>
                \A f \in UsageFields :
                    events'[Len(events')].usage[f] =
                        IF previousTotals = Null THEN unwrap(total)[f]
                        ELSE Max(0, unwrap(total)[f] - unwrap(previousTotals)[f])]_vars

\* A line with both forms, then a line with the same total alone: the second
\* line adds nothing, and the snapshot is that total.
C24_Witness ==
    /\ parsePc = "reading"
    /\ Len(lines) = 2
    /\ IsStampedTokenCountLine(lines[1])
    /\ lines[1].last # Null /\ lines[1].total # Null
    /\ IsStampedTokenCountLine(lines[2])
    /\ lines[2].last = Null /\ lines[2].total = lines[1].total
    /\ Len(events) = 1
    /\ previousTotals = normalizeCodexUsage(lines[2].total)

\* The step reads a line that ends the fallback: a turn_context with a model, or
\* a token count that emits an event and has a model of its own.
EndsFallback(line, emitted) ==
    /\ extractCodexModel(line.src) # Null
    /\ IsTurnContextLine(line) \/ (IsTokenCountLine(line) /\ emitted)

\* C29: while the carried model is the fallback model, every event emitted for a
\* line without a model of its own is flagged isFallbackModel, and the carried
\* model stays the fallback until a turn_context with a model or an emitted event
\* with its own model is read, which ends it; from then on no event of the file
\* is flagged and the fallback is not applied again. The fallback is carried only
\* after it has been applied, and the carried model is then 'gpt-5'.
C29_FallbackPersists ==
    /\ [][(parsePc = "reading" /\ Len(lines') > Len(lines)) =>
            LET line == lines'[Len(lines) + 1]
                emitted == Len(events') > Len(events)
            IN  /\ (currentModelIsFallback /\ ~EndsFallback(line, emitted)) =>
                    /\ currentModelIsFallback'
                    /\ currentModel' = currentModel
                    /\ emitted => events'[Len(events')].isFallbackModel
                /\ (currentModelIsFallback /\ EndsFallback(line, emitted)) =>
                    /\ ~currentModelIsFallback'
                    /\ emitted => ~events'[Len(events')].isFallbackModel
                /\ (currentModel # Null /\ ~currentModelIsFallback) =>
                    /\ ~currentModelIsFallback'
                    /\ legacyFallbackUsed' = legacyFallbackUsed
                    /\ emitted => ~events'[Len(events')].isFallbackModel
       ]_vars
    /\ [](currentModelIsFallback =>
            legacyFallbackUsed /\ currentModel = Some(FallbackModel))

\* Two events on the fallback model, both flagged, then a turn_context naming
\* gpt-5-mini, which ends the fallback.
C29_Witness ==
    /\ parsePc = "reading"
    /\ Len(lines) = 3
    /\ IsTokenCountLine(lines[1]) /\ IsTokenCountLine(lines[2])
    /\ IsTurnContextLine(lines[3])
    /\ extractCodexModel(lines[3].src) = Some(<<"gpt-5-mini">>)
    /\ Len(events) = 2
    /\ events[1].isFallbackModel /\ events[2].isFallbackModel
    /\ events[2].model = <<"gpt-5">>
    /\ legacyFallbackUsed
    /\ ~currentModelIsFallback
    /\ currentModel = Some(<<"gpt-5-mini">>)

(***************************************************************************)
(* Properties of loadClaudeUsage (checked under SpecClaude)                *)
(***************************************************************************)

windowStart == now - CLAUDE_SESSION_DURATION_MS

\* The usage events written in the transcripts that were read: every valid line
\* of a readable transcript that extractClaudeUsage accepts.
RECURSIVE UsageEventsOfLines(_)
UsageEventsOfLines(ls) ==
    IF Len(ls) = 0 THEN <<>>
    ELSE (IF Head(ls).valid /\ extractClaudeUsage(Head(ls)) # Null
          THEN extractClaudeUsage(Head(ls)) ELSE <<>>) \o UsageEventsOfLines(Tail(ls))

RECURSIVE UsageEventsOfFiles(_)
UsageEventsOfFiles(files) ==
    IF Len(files) = 0 THEN <<>>
    ELSE (IF Head(files).readable THEN UsageEventsOfLines(Head(files).lines) ELSE <<>>)
            \o UsageEventsOfFiles(Tail(files))

UsageEventsRead == UsageEventsOfFiles(FoundTranscripts(projectDirs, transcripts))

EventTokens(e) ==
    e.inputTokens + e.outputTokens + e.cacheCreationInputTokens + e.cacheReadInputTokens

RECURSIVE TokensOf(_)
TokensOf(es) == IF Len(es) = 0 THEN 0 ELSE EventTokens(Head(es)) + TokensOf(Tail(es))

TokensWhere(es, Keep(_)) == TokensOf(SelectSeq(es, Keep))

StrictlyAfterWindowStart(e) == e.timestamp > windowStart

NotBeforeWindowStart(e) == e.timestamp >= windowStart

\* C9 as stated: only the usage events strictly after windowStart contribute to
\* the totals (an event exactly at windowStart is excluded).
C9_AsStated ==
    claudePc = "done" =>
        unwrap(claudeResult).totalTokens = TokensWhere(UsageEventsRead, StrictlyAfterWindowStart)

\* C9 amended: a usage event contributes to the totals if and only if its
\* timestamp is not before windowStart (now minus 5 hours): every event strictly
\* before windowStart is excluded, an event exactly at windowStart is included.
C9_WindowBoundary ==
    /\ claudePc = "done" =>
        /\ unwrap(claudeResult).totalTokens =
              TokensWhere(UsageEventsRead, NotBeforeWindowStart)
        /\ \A i \in 1..Len(entries) : entries[i].timestamp >= windowStart
    /\ claudePc = "parsing" => \A i \in 1..Len(entries) : entries[i].timestamp >= windowStart

C9_Witness ==
    /\ claudePc = "done"
    /\ \E i \in 1..Len(UsageEventsRead) : UsageEventsRead[i].timestamp < windowStart
    /\ \E i \in 1..Len(UsageEventsRead) : UsageEventsRead[i].timestamp = windowStart
    /\ \E i \in 1..Len(entries) : entries[i].timestamp = windowStart
    /\ Len(entries) = 2
    /\ unwrap(claudeResult).totalTokens > 0

(***************************************************************************)
(* Properties of loadCodexUsage (checked under SpecCodex)                  *)
(***************************************************************************)

\* The models the price table names, directly or through an alias, whatever the
\* case of their letters.
PricedModelIds ==
    { <<"gpt-5">>, <<"gpt-5-mini">>, <<"gpt-4.1">>, <<"gpt-4.1-mini">>,
      <<"gpt-5-codex">>, <<"gpt-5o">>, <<"gpt-5-mini-codex">>, <<"gpt-4.1-preview">> }

HasPrice(model) == toLowerCase(model) \in PricedModelIds

\* The price triple of a model, in thousandths of a dollar per million tokens.
RatesOf(model) ==
    LET id == toLowerCase(model)
    IN  CASE id \in {<<"gpt-5">>, <<"gpt-5-codex">>, <<"gpt-5o">>} -> <<1250, 125, 10000>>
          [] id \in {<<"gpt-5-mini">>, <<"gpt-5-mini-codex">>} -> <<600, 60, 2000>>
          [] id \in {<<"gpt-4.1">>, <<"gpt-4.1-preview">>} -> <<5000, 500, 15000>>
          [] id = <<"gpt-4.1-mini">> -> <<1000, 100, 4000>>

ExpectedCost(usage, model) ==
    Num((usage.inputTokens - usage.cachedInputTokens) * RatesOf(model)[1]
            + usage.cachedInputTokens * RatesOf(model)[2]
            + usage.outputTokens * RatesOf(model)[3])

\* C10: in a Codex result with data the overall costUSD is defined if and only
\* if every model group has a resolvable price; with an unpriced group it is
\* absent (never a partial sum), while each priced group carries its own cost by
\* the price formula.
C10_OverallCostIffAllPriced ==
    (codexPc = "done" /\ unwrap(codexResult).hasData) =>
        LET r == unwrap(codexResult)
        IN  /\ (r.costUSD # Null) <=> (\A i \in 1..Len(r.models) : HasPrice(r.models[i].model))
            /\ \A i \in 1..Len(r.models) :
                HasPrice(r.models[i].model) =>
                    r.models[i].costUSD =
                        Some(ExpectedCost(r.models[i].usage, r.models[i].model))

\* The events the call collected that are dated today in the zone of the result.
TodaysEventsOf(r) ==
    SelectSeq(codexEvents, LAMBDA e : toDateKey(e.timestamp, r.timezone) = r.dateKey)

EventsOfModel(evs, model) == SelectSeq(evs, LAMBDA e : e.model = model)

RECURSIVE SumOfDeltaUsage(_)
SumOfDeltaUsage(evs) ==
    IF Len(evs) = 0
    THEN [inputTokens |-> 0, cachedInputTokens |-> 0, outputTokens |-> 0,
          reasoningOutputTokens |-> 0, totalTokens |-> 0]
    ELSE LET rest == SumOfDeltaUsage(Tail(evs))
             u == Head(evs).usage
         IN  [inputTokens |-> u.inputTokens + rest.inputTokens,
              cachedInputTokens |-> u.cachedInputTokens + rest.cachedInputTokens,
              outputTokens |-> u.outputTokens + rest.outputTokens,
              reasoningOutputTokens |-> u.reasoningOutputTokens + rest.reasoningOutputTokens,
              totalTokens |-> u.totalTokens + rest.totalTokens]

PricingIssueFor(model) == <<"Pricing not found for model ">> \o model

CountEqual(seq, x) == Cardinality({i \in 1..Len(seq) : seq[i] = x})

SummariesOf(r, model) == {i \in 1..Len(r.models) : r.models[i].model = model}

\* C11: for every model of today's events that has no pricing entry, exactly one
\* issue names the model, the model is in the models list with its full token
\* sums, its tokens are part of totalTokens, and its costUSD is absent.
C11_UnpricedModelReported ==
    (codexPc = "done" /\ unwrap(codexResult).hasData) =>
        LET r == unwrap(codexResult)
            today == TodaysEventsOf(r)
        IN  /\ r.totalTokens = SumOfDeltaUsage(today).totalTokens
            /\ \A k \in 1..Len(today) :
                ~HasPrice(today[k].model) =>
                    /\ CountEqual(r.issues, PricingIssueFor(today[k].model)) = 1
                    /\ Cardinality(SummariesOf(r, today[k].model)) = 1
                    /\ \A i \in SummariesOf(r, today[k].model) :
                        /\ r.models[i].usage =
                              SumOfDeltaUsage(EventsOfModel(today, today[k].model))
                        /\ r.models[i].costUSD = Null


RECURSIVE SumOfCosts(_)
SumOfCosts(models) ==
    IF Len(models) = 0 THEN 0
    ELSE unwrap(Head(models).costUSD).value + SumOfCosts(Tail(models))

\* C12: a priced model group's costUSD is (input - cached) * inputRate +
\* cached * cachedRate + output * outputRate (per million tokens) on the
\* group's summed usage, and the overall costUSD is the sum of the group costs.
C12_CostFormula ==
    (codexPc = "done" /\ unwrap(codexResult).hasData) =>
        LET r == unwrap(codexResult)
            today == TodaysEventsOf(r)
        IN  /\ \A i \in 1..Len(r.models) :
                HasPrice(r.models[i].model) =>
                    r.models[i].costUSD =
                        Some(ExpectedCost(SumOfDeltaUsage(EventsOfModel(today, r.models[i].model)),
                                          r.models[i].model))
            /\ (\A i \in 1..Len(r.models) : HasPrice(r.models[i].model)) =>
                    r.costUSD = Some(Num(SumOfCosts(r.models)))

\* One event of 1000 input, 200 cached and 1500 output tokens on gpt-5-mini.
C12_Witness ==
    /\ codexPc = "done"
    /\ unwrap(codexResult).hasData
    /\ Len(codexEvents) = 1
    /\ Len(unwrap(codexResult).models) = 1
    /\ unwrap(codexResult).models[1].model = <<"gpt-5-mini">>
    /\ unwrap(codexResult).models[1].usage.inputTokens = 1000
    /\ unwrap(codexResult).models[1].usage.cachedInputTokens = 200
    /\ unwrap(codexResult).models[1].usage.outputTokens = 1500
    /\ unwrap(codexResult).models[1].costUSD = Some(Num(800 * 600 + 200 * 60 + 1500 * 2000))
    /\ unwrap(codexResult).costUSD = Some(Num(800 * 600 + 200 * 60 + 1500 * 2000))


(***************************************************************************)
(* Further properties of loadClaudeUsage (checked under SpecClaude)        *)
(***************************************************************************)

\* The surviving entries: the usage events of the transcripts read that are not
\* before the window start.
SurvivingEntries == SelectSeq(UsageEventsRead, NotBeforeWindowStart)

EmbeddedCost(e) == IF e.totalCostUSD # Null THEN unwrap(e.totalCostUSD) ELSE 0

RECURSIVE CostOf(_)
CostOf(es) == IF Len(es) = 0 THEN 0 ELSE EmbeddedCost(Head(es)) + CostOf(Tail(es))

\* C13: when at least one Claude entry survives, totalTokens is the sum over the
\* surviving entries of all files of input + output + cache-creation +
\* cache-read tokens, and costUSD is the sum of their embedded costs, an entry
\* without embedded cost contributing 0.
C13_ClaudeTotals ==
    claudePc = "done" =>
        LET surviving == SurvivingEntries
        IN  Len(surviving) > 0 =>
                /\ unwrap(claudeResult).hasData
                /\ unwrap(claudeResult).totalTokens = TokensOf(surviving)
                /\ unwrap(claudeResult).costUSD = CostOf(surviving)

C13_Witness ==
    /\ claudePc = "done"
    /\ Len(transcripts) = 2
    /\ Len(SurvivingEntries) = 2
    /\ \E i \in 1..2 : SurvivingEntries[i].totalCostUSD = Null
    /\ \E i \in 1..2 : SurvivingEntries[i].totalCostUSD # Null
    /\ \E i \in 1..2 : SurvivingEntries[i].cacheReadInputTokens > 0
    /\ \E i \in 1..2 : SurvivingEntries[i].cacheCreationInputTokens > 0
    /\ unwrap(claudeResult).costUSD = 42
    /\ unwrap(claudeResult).totalTokens = 11


RECURSIVE LatestTimestamp(_)
LatestTimestamp(es) ==
    IF Len(es) = 1 THEN Head(es).timestamp
    ELSE Max(Head(es).timestamp, LatestTimestamp(Tail(es)))

BlockEndOf(es) == LatestTimestamp(es) + 5 * 60 * 60 * 1000

RemainingUntil(end) == IF end - now > 0 THEN end - now ELSE 0

\* C14: when at least one Claude entry survives there is exactly one active
\* block, ending 5 hours after the latest surviving entry; the remaining time is
\* that end minus now, floored at zero, rendered '<hours>h <minutes>m' with the
\* minutes in 0..59.
C14_ActiveBlock ==
    claudePc = "done" =>
        LET r == unwrap(claudeResult)
            surviving == SurvivingEntries
        IN  Len(surviving) > 0 =>
                LET end == BlockEndOf(surviving)
                    remaining == RemainingUntil(end)
                IN  /\ r.blockCount = 1
                    /\ r.activeBlockEnd = Some(end)
                    /\ remaining >= 0
                    /\ r.remainingTime =
                          <<remaining \div 3600000, "h ", (remaining \div 60000) % 60, "m">>
                    /\ r.remainingTime[3] \in 0..59

C14_Witness ==
    /\ claudePc = "done"
    /\ Len(SurvivingEntries) = 2
    /\ SurvivingEntries[1].timestamp = MidWindow
    /\ SurvivingEntries[2].timestamp < MidWindow
    /\ unwrap(claudeResult).blockCount = 1
    /\ unwrap(claudeResult).remainingTime = <<1, "h ", 30, "m">>


\* The host of the scenario: the override names a missing path and no platform
\* default exists.
OverrideMissingNoDefault ==
    /\ claudeEnv.CLAUDE_CONFIG_DIR = Some(<<Blank, "missing">>)
    /\ claudeEnv.existing = {}

\* The summaries getUsage may hold after the Claude pipeline stored its result:
\* the Codex pipeline stored nothing yet, or an error.
SummariesWithClaude(data) ==
    { OnFulfilled(EmptySummary, "claude", data) }
        \cup { OnFulfilled(OnRejected(EmptySummary, "codex", e), "claude", data) :
                 e \in Rejections }

SetOf(seq) == {seq[i] : i \in 1..Len(seq)}

\* The paths CLAUDE_CONFIG_DIR lists: the non-blank pieces between its commas.
OverridePaths ==
    IF hostEnv.CLAUDE_CONFIG_DIR = Null THEN {}
    ELSE SetOf(EnvPaths(unwrap(hostEnv.CLAUDE_CONFIG_DIR)))

PlatformDefaults == {<<"home", ".config", "claude">>, <<"home", ".claude">>}

\* C16: when the override variable is set and one of its comma-separated paths
\* exists, the Claude roots are exactly the existing override paths, without
\* the platform defaults; when no override path exists or the variable is unset
\* they are exactly the existing platform defaults.
C16_ClaudeRoots ==
    rootsPc = "claude" =>
        IF OverridePaths \cap hostEnv.existing # {}
        THEN SetOf(claudeRoots) = OverridePaths \cap hostEnv.existing
        ELSE /\ SetOf(claudeRoots) = PlatformDefaults \cap hostEnv.existing
             /\ Len(claudeRoots) = Cardinality(PlatformDefaults \cap hostEnv.existing)

C16_Witness ==
    /\ rootsPc = "claude"
    /\ hostEnv.CLAUDE_CONFIG_DIR = Some(<<Blank, "alt", Blank, ",", "other">>)
    /\ hostEnv.existing = {<<"alt">>, <<"home", ".claude">>}
    /\ claudeRoots = <<<<"alt">>>>

\* The directory CODEX_HOME names for the sessions, if it names one.
OverrideSessionDir ==
    IF hostEnv.CODEX_HOME = Null \/ Trim(unwrap(hostEnv.CODEX_HOME)) = <<>> THEN {}
    ELSE {Trim(unwrap(hostEnv.CODEX_HOME)) \o <<"sessions">>}

\* C17: the platform default session directory is always among the Codex
\* candidates, the override session directory is added to it when the override
\* variable is set, and no path is listed twice.
C17_CodexRoots ==
    rootsPc = "codex" =>
        /\ <<"home", ".codex", "sessions">> \in SetOf(codexRoots)
        /\ SetOf(codexRoots) = OverrideSessionDir \cup {<<"home", ".codex", "sessions">>}
        /\ Cardinality(SetOf(codexRoots)) = Len(codexRoots)

C17_Witness ==
    /\ rootsPc = "codex"
    /\ hostEnv.CODEX_HOME = Some(<<Blank, "home", ".codex", Blank>>)
    /\ codexRoots = <<<<"home", ".codex", "sessions">>>>


(***************************************************************************)
(* Properties of collectJsonlFiles (checked under SpecCollect)             *)
(***************************************************************************)

IsPrefix(p, q) == Len(p) <= Len(q) /\ SubSeq(q, 1, Len(p)) = p

\* File i is a .jsonl file that can be reached from the root: every directory
\* from the root down to the file's own can be read.
VisibleFrom(i, root) ==
    /\ disk[i].ext = "jsonl"
    /\ disk[i].statOk
    /\ IsPrefix(root, disk[i].dir)
    /\ \A n \in Len(root)..Len(disk[i].dir) : SubSeq(disk[i].dir, 1, n) \notin unreadable

\* The number of roots of the call file i is found under.
TimesFound(i) == Cardinality({k \in 1..Len(collectRoots) : VisibleFrom(i, collectRoots[k])})

RECURSIVE SumTimesFound(_)
SumTimesFound(n) == IF n = 0 THEN 0 ELSE TimesFound(n) + SumTimesFound(n - 1)

\* C18: collectJsonlFiles returns the .jsonl files found under all roots,
\* nested subdirectories included, by non-increasing modification time; with a
\* limit N and more than N candidates it returns exactly the N most recently
\* modified; an unreadable directory is skipped and the call does not fail.
C18_CollectJsonlFiles ==
    collectPc = "done" =>
        LET found == SumTimesFound(Len(disk))
            capped == collectLimit # Null /\ found > unwrap(collectLimit)
        IN  /\ \A k \in 1..Len(collected) : collected[k] \in 1..Len(disk)
            /\ \A k \in 1..(Len(collected) - 1) :
                  disk[collected[k]].mtimeMs >= disk[collected[k + 1]].mtimeMs
            /\ ~capped => \A i \in 1..Len(disk) : CountEqual(collected, i) = TimesFound(i)
            /\ capped =>
                /\ Len(collected) = unwrap(collectLimit)
                /\ \A i \in 1..Len(disk) :
                    /\ CountEqual(collected, i) <= TimesFound(i)
                    /\ CountEqual(collected, i) < TimesFound(i) =>
                          \A k \in 1..Len(collected) :
                              disk[collected[k]].mtimeMs >= disk[i].mtimeMs

C18_Witness ==
    /\ collectPc = "done"
    /\ disk = <<File(DirNested, "jsonl", 2, TRUE), File(DirB, "jsonl", 3, TRUE),
                File(DirA, "jsonl", 1, TRUE)>>
    /\ unreadable = {DirDeep}
    /\ collectRoots = <<DirB, DirA>>
    /\ collectLimit = Some(2)
    /\ collected = <<2, 1>>


\* The zone the call resolved and the events it collected that are dated today there.
ResolvedZone == resolveTimeZone(codexOptions.timezone)

EventsOfToday ==
    SelectSeq(codexEvents,
              LAMBDA e : toDateKey(e.timestamp, ResolvedZone) = toDateKey(CodexNow, ResolvedZone))

ModelsOf(evs) == {evs[k].model : k \in 1..Len(evs)}

\* C20: only the events whose calendar date in the resolved time zone is today's
\* count: hasData says whether there is one; totalTokens is the sum of their
\* deltas; the models list has one summary per model among them, holding the sum
\* of that model's events of today, and a priced model's cost is computed on that
\* sum; when events exist but none is dated today the result has hasData = false,
\* totalTokens = 0, no models and no costUSD.
C20_OnlyTodayCounts ==
    codexPc = "done" =>
        LET r == unwrap(codexResult)
            today == EventsOfToday
        IN  /\ r.hasData = (Len(today) > 0)
            /\ r.totalTokens = SumOfDeltaUsage(today).totalTokens
            /\ {r.models[i].model : i \in 1..Len(r.models)} = ModelsOf(today)
            /\ \A i \in 1..Len(r.models) :
                LET usage == SumOfDeltaUsage(EventsOfModel(today, r.models[i].model))
                IN  /\ r.models[i].usage = usage
                    /\ HasPrice(r.models[i].model) =>
                          r.models[i].costUSD = Some(ExpectedCost(usage, r.models[i].model))
            /\ (Len(codexEvents) > 0 /\ Len(today) = 0) =>
                /\ ~r.hasData
                /\ r.totalTokens = 0
                /\ r.models = <<>>
                /\ r.costUSD = Null

\* In UTC, at 01:00: an event of 23:59:59.999 the day before and an event of
\* today; only today's 2500 tokens are counted.
C20_Witness ==
    /\ codexPc = "done"
    /\ ResolvedZone = <<"UTC">>
    /\ Len(codexEvents) = 2
    /\ \E k \in 1..2 : codexEvents[k].timestamp = LateYesterday
    /\ Len(EventsOfToday) = 1
    /\ unwrap(codexResult).hasData
    /\ unwrap(codexResult).totalTokens = 2500
    /\ Len(unwrap(codexResult).models) = 1


RECURSIVE SumOfSummaryTotals(_)
SumOfSummaryTotals(models) ==
    IF Len(models) = 0 THEN 0
    ELSE Head(models).usage.totalTokens + SumOfSummaryTotals(Tail(models))

FlaggedEventsOf(evs, model) ==
    {k \in 1..Len(evs) : evs[k].model = model /\ evs[k].isFallbackModel}

\* C25: in a result with data every event of today belongs to exactly one model
\* summary, every summary is that of a model of today's events, its usage is the
\* component-wise sum of the deltas of today's events with that model, its
\* isFallbackModel is true exactly when one of those events is flagged, and the
\* summaries' totalTokens add up to the result's totalTokens.
C25_EveryEventInOneGroup ==
    (codexPc = "done" /\ unwrap(codexResult).hasData) =>
        LET r == unwrap(codexResult)
            today == EventsOfToday
        IN  /\ \A k \in 1..Len(today) : Cardinality(SummariesOf(r, today[k].model)) = 1
            /\ \A i \in 1..Len(r.models) :
                /\ r.models[i].model \in ModelsOf(today)
                /\ \A f \in UsageFields :
                      r.models[i].usage[f] =
                          SumOfDeltaUsage(EventsOfModel(today, r.models[i].model))[f]
                /\ r.models[i].isFallbackModel =
                      (FlaggedEventsOf(today, r.models[i].model) # {})
            /\ SumOfSummaryTotals(r.models) = r.totalTokens

\* Three events of today: one on the fallback model gpt-5, then one that names
\* gpt-5 itself, and one on another model; the gpt-5 summary is flagged.
C25_Witness ==
    /\ codexPc = "done"
    /\ unwrap(codexResult).hasData
    /\ Len(EventsOfToday) = 3
    /\ Len(unwrap(codexResult).models) = 2
    /\ \E i \in 1..2 :
        /\ unwrap(codexResult).models[i].model = <<"gpt-5">>
        /\ unwrap(codexResult).models[i].isFallbackModel
        /\ Len(EventsOfModel(EventsOfToday, <<"gpt-5">>)) = 2
        /\ Cardinality(FlaggedEventsOf(EventsOfToday, <<"gpt-5">>)) = 1
        /\ ~EventsOfModel(EventsOfToday, <<"gpt-5">>)[2].isFallbackModel


\* The orders in which the session files can be found.
Orderings(files) ==
    LET n == Len(files)
        perms == {p \in [1..n -> 1..n] : \A i, j \in 1..n : p[i] = p[j] => i = j}
    IN  {[i \in 1..n |-> files[p[i]]] : p \in perms}

\* The part of a Codex result that does not say in which order things were found.
TotalsOf(r) ==
    [totalTokens |-> r.totalTokens,
     costUSD |-> r.costUSD,
     models |-> {[model |-> r.models[i].model, usage |-> r.models[i].usage,
                  costUSD |-> r.models[i].costUSD] : i \in 1..Len(r.models)}]

\* C26: the result's totalTokens, the usage sums and the cost of every model and
\* the overall costUSD are those of a call that finds the same session files in
\* any other order.
C26_FileOrderIndependent ==
    codexPc = "done" =>
        \A files \in Orderings(sessions) :
            TotalsOf(loadCodexUsage(files, codexEnv, codexOptions, CodexNow)) =
                TotalsOf(unwrap(codexResult))

\* Two session files: the older holds a turn_context naming gpt-5-mini, the newer
\* a token count without a model, which is counted on the fallback model.
C26_Witness ==
    /\ codexPc = "done"
    /\ Len(sessions) = 2
    /\ Len(sessions[2].lines) = 1
    /\ sessions[2].lines[1].type = "turn_context"
    /\ Len(sessions[1].lines) = 1
    /\ sessions[1].lines[1].src = NoModelSource
    /\ unwrap(codexResult).hasData
    /\ Len(unwrap(codexResult).models) = 1
    /\ unwrap(codexResult).models[1].model = <<"gpt-5">>
    /\ unwrap(codexResult).models[1].isFallbackModel


\* The candidate session directories of the call that exist and that do not.
ExistingCandidates == {i \in 1..Len(sessionDirs) : sessionDirs[i] \in codexEnv.existing}

AbsentCandidates == {i \in 1..Len(sessionDirs) : sessionDirs[i] \notin codexEnv.existing}

\* C28: in every Codex result available is true exactly when one of the candidate
\* session directories exists; missingDirectories lists the candidates that do
\* not exist, each once and nothing else; and a call throws only for a time zone
\* that is not accepted, never for a directory that does not exist.
C28_AvailableIffDirectoryExists ==
    /\ codexPc = "done" =>
        LET r == unwrap(codexResult)
        IN  /\ r.available = (ExistingCandidates # {})
            /\ Len(r.missingDirectories) = Cardinality(AbsentCandidates)
            /\ \A i \in AbsentCandidates :
                CountEqual(r.missingDirectories, sessionDirs[i]) = 1
    /\ codexPc = "thrown" => ZoneOffsetMs(ResolvedZone) = Null
    /\ (codexPc = "scanning" /\ scanned = Len(sessionDirs)) =>
            Len(missingDirectories) = Cardinality(AbsentCandidates)

\* CODEX_HOME names a directory without sessions, the default directory holds an
\* event of yesterday only: available, no data, one missing directory.
C28_Witness ==
    /\ codexPc = "done"
    /\ Len(sessionDirs) = 2
    /\ Cardinality(AbsentCandidates) = 1
    /\ Len(codexEvents) = 1
    /\ Len(EventsOfToday) = 0
    /\ unwrap(codexResult).available
    /\ ~unwrap(codexResult).hasData
    /\ unwrap(codexResult).missingDirectories = <<<<"alt", "sessions">>>>


(***************************************************************************)
(* Overlapping refreshes of the status bar (checked under SpecRefresh)     *)
(***************************************************************************)

NoRefreshPending ==
    \A i \in 1..Len(refreshes) : refreshes[i].state # "pending"

\* C30: once every refresh that was started has completed, the status bar item
\* shows the outcome of the refresh started last, obtained with the provider
\* mode that refresh read.
C30_LastRefreshShown ==
    (uiPc = "active" /\ Len(refreshes) > 0 /\ NoRefreshPending) =>
        /\ statusBarItem.refresh = Len(refreshes)
        /\ statusBarItem.providerMode = refreshes[Len(refreshes)].providerMode
        /\ statusBarItem.shows = refreshes[Len(refreshes)].state


(***************************************************************************)
(* Repeated calls (checked under SpecClaude)                               *)
(***************************************************************************)

\* How much later than the call just made a second call may read the clock:
\* at the same instant, a millisecond later, a minute later.
LaterBy == {0, 1, 60 * 1000}

\* A second call against the same transcripts and environment, by ms later.
SecondCall(by) == loadClaudeUsage(transcripts, claudeEnv, now + by)

\* The result with the remaining time left out.
ApartFromRemainingTime(r) == [r EXCEPT !.remainingTime = <<>>]

\* An entry the call just made counted is before the window of a call by ms later.
AgedOut(by) ==
    \E i \in 1..Len(entries) :
        entries[i].timestamp < (now + by) - CLAUDE_SESSION_DURATION_MS

WindowIds == {"primary", "secondary"}

\* C22: a window whose length is within a minute of 300 minutes is labeled '5h'
\* and one within a minute of 10080 minutes '1 week'; the exact lengths are not
\* required.
C22_WindowLabels ==
    ratePc = "done" =>
        \A id \in WindowIds :
            LET minutes == unwrap(rateReading)[id].window_minutes
                label == unwrap(rateLimits)[id].label
            IN  /\ minutes \in 299..301 => label = Some("5h")
                /\ minutes \in 10079..10081 => label = Some("1 week")

\* The lengths of the service's test: 299 and 10079 minutes.
C22_Witness ==
    /\ ratePc = "done"
    /\ unwrap(rateReading).primary.window_minutes = 299
    /\ unwrap(rateReading).secondary.window_minutes = 10079
    /\ unwrap(rateLimits).primary.label = Some("5h")
    /\ unwrap(rateLimits).secondary.label = Some("1 week")

\* C23: resetsInSeconds is the number of seconds from the instant of the query to
\* the reset instant: for resets_in_seconds the reset instant is that many
\* seconds after the event's timestamp, so the value is the reading less the
\* seconds elapsed since the event; a resets_at at epoch-milliseconds magnitude
\* is read as milliseconds, a smaller one as seconds.
C23_ResetsInSeconds ==
    ratePc = "done" =>
        \A id \in WindowIds :
            LET raw == unwrap(rateReading)[id]
                elapsedSeconds == (rateNow - unwrap(rateReading).timestamp) \div 1000
                resetsInSeconds == unwrap(rateLimits)[id].resetsInSeconds
            IN  /\ raw.resets_in_seconds # Null =>
                    resetsInSeconds = unwrap(raw.resets_in_seconds) - elapsedSeconds
                /\ (raw.resets_in_seconds = Null /\ unwrap(raw.resets_at) >= EpochMillisThreshold) =>
                    resetsInSeconds * 1000 = unwrap(raw.resets_at) - rateNow
                /\ (raw.resets_in_seconds = Null /\ unwrap(raw.resets_at) < EpochMillisThreshold) =>
                    resetsInSeconds = unwrap(raw.resets_at) - rateNow \div 1000

\* The readings of the service's test: 1800 s and 7200 s reported ten minutes ago.
C23_Witness ==
    /\ ratePc = "done"
    /\ rateNow - unwrap(rateReading).timestamp = TEN_MINUTES_MS
    /\ unwrap(rateReading).primary.resets_in_seconds = Some(1800)
    /\ unwrap(rateReading).secondary.resets_in_seconds = Some(7200)
    /\ unwrap(rateLimits).primary.resetsInSeconds = 1200
    /\ unwrap(rateLimits).secondary.resetsInSeconds = 6600

=============================================================================
